---------------------------- MODULE Spec2Model ----------------------------
(***************************************************************************)
(* Model of the DeGiro dashboard's ledger-to-portfolio pipeline:           *)
(*   - degiro_processor_pg.py : load_degiro_data, categorize_transactions, *)
(*     _process_trades, get_current_prices, calculate_holdings,            *)
(*     process_and_store                                                   *)
(*   - database_models.py     : store_transactions, store_holdings, ...    *)
(*   - generate_datasets.py   : process_description, process_transaction,  *)
(*     create_df_buys, generate_current_stock_values, ...                  *)
(*   - fix_holdings.py        : fix_holdings_for_all_users                 *)
(*                                                                         *)
(* Text is modelled as a sequence of one-character strings, so that the    *)
(* substring and regular-expression tests of the code are computed rather  *)
(* than assumed.  The accented letter o-acute is written "o'" ("O'" in     *)
(* upper case) and counts as one character.                                *)
(***************************************************************************)
EXTENDS Integers, Sequences, FiniteSets, TLC

(***************************************************************************)
(* pandas' NaN / Python's None.  A nullable number is <<>> (NaN) or <<v>>; *)
(* a nullable text is NaNText or a sequence of characters.  Money is in    *)
(* hundredths (cents).                                                     *)
(***************************************************************************)
NaNNum     == <<>>
Num(v)     == <<v>>
IsNaN(x)   == x = <<>>
Val(x)     == x[1]
NaNText    == <<"<NaN>">>
IsNaText(t) == t = NaNText

(***************************************************************************)
(* Characters.                                                             *)
(***************************************************************************)
UpperChars == <<"A","B","C","D","E","F","G","H","I","J","K","L","M",
                "N","O","P","Q","R","S","T","U","V","W","X","Y","Z">>
LowerChars == <<"a","b","c","d","e","f","g","h","i","j","k","l","m",
                "n","o","p","q","r","s","t","u","v","w","x","y","z">>
DigitChars == <<"0","1","2","3","4","5","6","7","8","9">>

IsUpperAZ(c) == \E i \in 1..Len(UpperChars) : UpperChars[i] = c
IsDigit(c)   == \E i \in 1..Len(DigitChars) : DigitChars[i] = c
IsSpace(c)   == c = " "
DigitValue(c) == (CHOOSE i \in 1..Len(DigitChars) : DigitChars[i] = c) - 1

\* str.lower() on one character
LowerChar(c) ==
    IF IsUpperAZ(c)
    THEN LowerChars[CHOOSE i \in 1..Len(UpperChars) : UpperChars[i] = c]
    ELSE IF c = "O'" THEN "o'" ELSE c

\* str.lower()
Lower(s) == SubSeq([i \in 1..Len(s) |-> LowerChar(s[i])], 1, Len(s))

\* str.strip(): leading and trailing blanks removed
Strip(s) ==
    IF \A i \in 1..Len(s) : IsSpace(s[i]) THEN <<>>
    ELSE LET a == CHOOSE i \in 1..Len(s) :
                    ~IsSpace(s[i]) /\ \A j \in 1..(i-1) : IsSpace(s[j])
             b == CHOOSE i \in 1..Len(s) :
                    ~IsSpace(s[i]) /\ \A j \in (i+1)..Len(s) : IsSpace(s[j])
         IN  SubSeq(s, a, b)

\* p occurs in s starting at position i
MatchAt(s, p, i) ==
    /\ i >= 1
    /\ i + Len(p) - 1 <= Len(s)
    /\ \A k \in 1..Len(p) : s[i + k - 1] = p[k]

\* Python's  p in s
Contains(s, p) == \E i \in 1..(Len(s) + 1) : MatchAt(s, p, i)

\* the digits d (a run of decimal digits) as a number: int("...")
RECURSIVE ParseNat(_)
ParseNat(d) ==
    IF Len(d) = 0 THEN 0
    ELSE 10 * ParseNat(SubSeq(d, 1, Len(d) - 1)) + DigitValue(d[Len(d)])

\* end position of the longest run of characters satisfying Ok that starts at i
\* (i - 1 when s[i] does not satisfy it)
RunEnd(s, i, Ok(_)) ==
    IF i > Len(s) \/ ~Ok(s[i]) THEN i - 1
    ELSE CHOOSE e \in i..Len(s) :
            /\ \A k \in i..e : Ok(s[k])
            /\ (e = Len(s) \/ ~Ok(s[e + 1]))


\* F applied to the value of x
With(x, F(_)) == CHOOSE v \in {F(y) : y \in {x}} : TRUE

\* set of the elements of a sequence
Range(s) == {s[i] : i \in 1..Len(s)}

\* smallest element of a non-empty set of integers
Min(S) == CHOOSE x \in S : \A y \in S : x <= y

Abs(v) == IF v < 0 THEN -v ELSE v

\* concatenation of a sequence of sequences
RECURSIVE Flatten(_)
Flatten(ss) == IF Len(ss) = 0 THEN <<>> ELSE Head(ss) \o Flatten(Tail(ss))

(***************************************************************************)
(* Input: rows of the brokerage export.  A CSV is a sequence of indices    *)
(* into RowPool.  Columns as DeGiro exports them: Fecha, Producto, ISIN,   *)
(* Descripcion, Variacion (the currency code) and the unnamed column after *)
(* it (the number).                                                        *)
(***************************************************************************)
\* the columns of DeGiro's account export, and those of the CSV of
\* test_postgres.py (names without their accents)
DegiroColumns ==
    {"Fecha", "Hora", "Fecha valor", "Producto", "ISIN", "Descripcion", "Tipo",
     "Variacion", "Unnamed: 8", "Saldo", "Unnamed: 10", "ID Orden"}
TestColumns == {"Fecha", "Producto", "Descripcion", "Cambio", "Saldo EUR"}

RowPool == <<
    \* 1: test_postgres.py:20 (buy 10)
    \*    "Compra 10 APPLE@150.25 USD (US0378331005)"
    [columns |-> DegiroColumns,
     Fecha |-> <<"0","1","-","0","1","-","2","0","2","4">>,
     Producto |-> <<"A","P","P","L","E"," ","I","N","C"," ","(","U","S","0","3","7",
         "8","3","3","1","0","0","5",")">>,
     ISIN |-> <<"U","S","0","3","7","8","3","3","1","0","0","5">>,
     Descripcion |->
       <<"C","o","m","p","r","a"," ","1","0"," ","A","P","P","L","E","@",
         "1","5","0",".","2","5"," ","U","S","D"," ","(","U","S","0","3",
         "7","8","3","3","1","0","0","5",")">>,
     Unnamed8 |-> <<"-","1","5","0","2",".","5","0">>,
     Variacion |-> <<"E","U","R">>],
    \* 2: sell 4 of the same ISIN
    \*    "Venta 4 APPLE@155.75 USD (US0378331005)"
    [columns |-> DegiroColumns,
     Fecha |-> <<"0","1","-","0","2","-","2","0","2","4">>,
     Producto |-> <<"A","P","P","L","E"," ","I","N","C"," ","(","U","S","0","3","7",
         "8","3","3","1","0","0","5",")">>,
     ISIN |-> <<"U","S","0","3","7","8","3","3","1","0","0","5">>,
     Descripcion |->
       <<"V","e","n","t","a"," ","4"," ","A","P","P","L","E","@","1","5",
         "5",".","7","5"," ","U","S","D"," ","(","U","S","0","3","7","8",
         "3","3","1","0","0","5",")">>,
     Unnamed8 |-> <<"6","2","3",".","0","0">>,
     Variacion |-> <<"E","U","R">>],
    \* 3: sell 10 of the same ISIN
    \*    "Venta 10 APPLE@155.75 USD (US0378331005)"
    [columns |-> DegiroColumns,
     Fecha |-> <<"0","2","-","0","2","-","2","0","2","4">>,
     Producto |-> <<"A","P","P","L","E"," ","I","N","C"," ","(","U","S","0","3","7",
         "8","3","3","1","0","0","5",")">>,
     ISIN |-> <<"U","S","0","3","7","8","3","3","1","0","0","5">>,
     Descripcion |->
       <<"V","e","n","t","a"," ","1","0"," ","A","P","P","L","E","@","1",
         "5","5",".","7","5"," ","U","S","D"," ","(","U","S","0","3","7",
         "8","3","3","1","0","0","5",")">>,
     Unnamed8 |-> <<"1","5","5","7",".","5","0">>,
     Variacion |-> <<"E","U","R">>],
    \* 4: buy 5, amount with a decimal comma as DeGiro exports it
    \*    "Compra 5 APPLE@150,25 USD (US0378331005)"
    [columns |-> DegiroColumns,
     Fecha |-> <<"0","3","-","0","1","-","2","0","2","4">>,
     Producto |-> <<"A","P","P","L","E"," ","I","N","C"," ","(","U","S","0","3","7",
         "8","3","3","1","0","0","5",")">>,
     ISIN |-> <<"U","S","0","3","7","8","3","3","1","0","0","5">>,
     Descripcion |->
       <<"C","o","m","p","r","a"," ","5"," ","A","P","P","L","E","@","1",
         "5","0",",","2","5"," ","U","S","D"," ","(","U","S","0","3","7",
         "8","3","3","1","0","0","5",")">>,
     Unnamed8 |-> <<"-","7","5","1",",","2","5">>,
     Variacion |-> <<"E","U","R">>],
    \* 5: dividend
    \*    "Dividendo"
    [columns |-> DegiroColumns,
     Fecha |-> <<"1","5","-","0","1","-","2","0","2","4">>,
     Producto |-> <<"A","P","P","L","E"," ","I","N","C"," ","(","U","S","0","3","7",
         "8","3","3","1","0","0","5",")">>,
     ISIN |-> <<"U","S","0","3","7","8","3","3","1","0","0","5">>,
     Descripcion |->
       <<"D","i","v","i","d","e","n","d","o">>,
     Unnamed8 |-> <<"1","5",".","5","0">>,
     Variacion |-> <<"E","U","R">>],
    \* 6: buy 2 of a second ISIN; the name contains 'cost'
    \*    "Compra 2 Costco Wholesale@500 USD (US22160K1051)"
    [columns |-> DegiroColumns,
     Fecha |-> <<"0","5","-","0","1","-","2","0","2","4">>,
     Producto |-> <<"C","O","S","T","C","O"," ","W","H","O","L","E","S","A","L","E",
         " ","(","U","S","2","2","1","6","0","K","1","0","5","1",")">>,
     ISIN |-> <<"U","S","2","2","1","6","0","K","1","0","5","1">>,
     Descripcion |->
       <<"C","o","m","p","r","a"," ","2"," ","C","o","s","t","c","o"," ",
         "W","h","o","l","e","s","a","l","e","@","5","0","0"," ","U","S",
         "D"," ","(","U","S","2","2","1","6","0","K","1","0","5","1",
         ")">>,
     Unnamed8 |-> <<"-","1","0","0","0",".","0","0">>,
     Variacion |-> <<"E","U","R">>],
    \* 7: currency exchange line, no product
    \*    "Retirada Cambio de Divisa"
    [columns |-> DegiroColumns,
     Fecha |-> <<"0","6","-","0","1","-","2","0","2","4">>,
     Producto |-> NaNText,
     ISIN |-> NaNText,
     Descripcion |->
       <<"R","e","t","i","r","a","d","a"," ","C","a","m","b","i","o"," ",
         "d","e"," ","D","i","v","i","s","a">>,
     Unnamed8 |-> <<"-","1","0",".","0","0">>,
     Variacion |-> <<"E","U","R">>],
    \* 8: deposit, no product
    \*    "flatex Deposit"
    [columns |-> DegiroColumns,
     Fecha |-> <<"0","7","-","0","1","-","2","0","2","4">>,
     Producto |-> NaNText,
     ISIN |-> NaNText,
     Descripcion |->
       <<"f","l","a","t","e","x"," ","D","e","p","o","s","i","t">>,
     Unnamed8 |-> <<"2","0","0","0",".","0","0">>,
     Variacion |-> <<"E","U","R">>],
    \* 9: transaction cost
    \*    "Costes de transaccio'n y/o externos de DEGIRO"
    [columns |-> DegiroColumns,
     Fecha |-> <<"0","1","-","0","1","-","2","0","2","4">>,
     Producto |-> <<"A","P","P","L","E"," ","I","N","C"," ","(","U","S","0","3","7",
         "8","3","3","1","0","0","5",")">>,
     ISIN |-> <<"U","S","0","3","7","8","3","3","1","0","0","5">>,
     Descripcion |->
       <<"C","o","s","t","e","s"," ","d","e"," ","t","r","a","n","s","a",
         "c","c","i","o'","n"," ","y","/","o"," ","e","x","t","e","r",
         "n","o","s"," ","d","e"," ","D","E","G","I","R","O">>,
     Unnamed8 |-> <<"-","0",".","5","0">>,
     Variacion |-> <<"E","U","R">>],
    \* 10: buy 10, product without embedded ISIN (DeGiro's own layout)
    \*    "Compra 10 Apple Inc@150.25 USD (US0378331005)"
    [columns |-> DegiroColumns,
     Fecha |-> <<"0","1","-","0","1","-","2","0","2","4">>,
     Producto |-> <<"A","P","P","L","E"," ","I","N","C">>,
     ISIN |-> <<"U","S","0","3","7","8","3","3","1","0","0","5">>,
     Descripcion |->
       <<"C","o","m","p","r","a"," ","1","0"," ","A","p","p","l","e"," ",
         "I","n","c","@","1","5","0",".","2","5"," ","U","S","D"," ","(",
         "U","S","0","3","7","8","3","3","1","0","0","5",")">>,
     Unnamed8 |-> <<"-","1","5","0","2",".","5","0">>,
     Variacion |-> <<"E","U","R">>],
    \* 11: sell 10, product without embedded ISIN
    \*    "Venta 10 Apple Inc@155.75 USD (US0378331005)"
    [columns |-> DegiroColumns,
     Fecha |-> <<"0","2","-","0","2","-","2","0","2","4">>,
     Producto |-> <<"A","P","P","L","E"," ","I","N","C">>,
     ISIN |-> <<"U","S","0","3","7","8","3","3","1","0","0","5">>,
     Descripcion |->
       <<"V","e","n","t","a"," ","1","0"," ","A","p","p","l","e"," ","I",
         "n","c","@","1","5","5",".","7","5"," ","U","S","D"," ","(","U",
         "S","0","3","7","8","3","3","1","0","0","5",")">>,
     Unnamed8 |-> <<"1","5","5","7",".","5","0">>,
     Variacion |-> <<"E","U","R">>],
    \* 12: stock split booked as a buy, amount in USD
    \*    "STOCK SPLIT: Compra 40 NVIDIA CORP@120 USD (US67066G1040)"
    [columns |-> DegiroColumns,
     Fecha |-> <<"1","0","-","0","6","-","2","0","2","4">>,
     Producto |-> <<"N","V","I","D","I","A"," ","C","O","R","P"," ","(","U","S","6",
         "7","0","6","6","G","1","0","4","0",")">>,
     ISIN |-> <<"U","S","6","7","0","6","6","G","1","0","4","0">>,
     Descripcion |->
       <<"S","T","O","C","K"," ","S","P","L","I","T",":"," ","C","o","m",
         "p","r","a"," ","4","0"," ","N","V","I","D","I","A"," ","C","O",
         "R","P","@","1","2","0"," ","U","S","D"," ","(","U","S","6","7",
         "0","6","6","G","1","0","4","0",")">>,
     Unnamed8 |-> <<"-","4","8","0","0",".","0","0">>,
     Variacion |-> <<"U","S","D">>],
    \* 13: connectivity fee, no product
    \*    "Comisio'n de conectividad con el mercado 2024 (Euronext Paris)"
    [columns |-> DegiroColumns,
     Fecha |-> <<"0","2","-","0","1","-","2","0","2","4">>,
     Producto |-> NaNText,
     ISIN |-> NaNText,
     Descripcion |->
       <<"C","o","m","i","s","i","o'","n"," ","d","e"," ","c","o","n",
         "e","c","t","i","v","i","d","a","d"," ","c","o","n"," ","e","l",
         " ","m","e","r","c","a","d","o"," ","2","0","2","4"," ","(","E",
         "u","r","o","n","e","x","t"," ","P","a","r","i","s",")">>,
     Unnamed8 |-> <<"-","2",".","5","0">>,
     Variacion |-> <<"E","U","R">>],
    \* 14: buy without a share count
    \*    "Compra APPLE@150.25 USD (US0378331005)"
    [columns |-> DegiroColumns,
     Fecha |-> <<"0","4","-","0","1","-","2","0","2","4">>,
     Producto |-> <<"A","P","P","L","E"," ","I","N","C"," ","(","U","S","0","3","7",
         "8","3","3","1","0","0","5",")">>,
     ISIN |-> <<"U","S","0","3","7","8","3","3","1","0","0","5">>,
     Descripcion |->
       <<"C","o","m","p","r","a"," ","A","P","P","L","E","@","1","5","0",
         ".","2","5"," ","U","S","D"," ","(","U","S","0","3","7","8","3",
         "3","1","0","0","5",")">>,
     Unnamed8 |-> <<"-","1","5","0",".","2","5">>,
     Variacion |-> <<"E","U","R">>],
    \* 15: buy 3 of the first ISIN under another product name
    \*    "Compra 3 APPLE@150.25 USD (US0378331005)"
    [columns |-> DegiroColumns,
     Fecha |-> <<"0","8","-","0","1","-","2","0","2","4">>,
     Producto |-> <<"A","P","P","L","E"," ","C","O","M","P","U","T","E","R"," ","I",
         "N","C"," ","(","U","S","0","3","7","8","3","3","1","0","0","5",
         ")">>,
     ISIN |-> <<"U","S","0","3","7","8","3","3","1","0","0","5">>,
     Descripcion |->
       <<"C","o","m","p","r","a"," ","3"," ","A","P","P","L","E","@","1",
         "5","0",".","2","5"," ","U","S","D"," ","(","U","S","0","3","7",
         "8","3","3","1","0","0","5",")">>,
     Unnamed8 |-> <<"-","4","5","0",".","7","5">>,
     Variacion |-> <<"E","U","R">>],
    \* 16: dividend whose date is no date
    \*    "Dividendo"
    [columns |-> DegiroColumns,
     Fecha |-> <<"3","2","-","0","1","-","2","0","2","4">>,
     Producto |-> <<"A","P","P","L","E"," ","I","N","C"," ","(","U","S","0","3","7",
         "8","3","3","1","0","0","5",")">>,
     ISIN |-> <<"U","S","0","3","7","8","3","3","1","0","0","5">>,
     Descripcion |->
       <<"D","i","v","i","d","e","n","d","o">>,
     Unnamed8 |-> <<"1",".","0","0">>,
     Variacion |-> <<"E","U","R">>],
    \* 17: dividend paid in GBP
    \*    "Dividendo"
    [columns |-> DegiroColumns,
     Fecha |-> <<"0","9","-","0","1","-","2","0","2","4">>,
     Producto |-> <<"S","H","E","L","L"," ","P","L","C"," ","(","G","B","0","0","B",
         "P","6","M","X","D","8","4",")">>,
     ISIN |-> <<"G","B","0","0","B","P","6","M","X","D","8","4">>,
     Descripcion |->
       <<"D","i","v","i","d","e","n","d","o">>,
     Unnamed8 |-> <<"8",".","0","0">>,
     Variacion |-> <<"G","B","P">>],
    \* 18: withholding on the dividend of row 5
    \*    "Retencio'n del dividendo"
    [columns |-> DegiroColumns,
     Fecha |-> <<"1","5","-","0","1","-","2","0","2","4">>,
     Producto |-> <<"A","P","P","L","E"," ","I","N","C"," ","(","U","S","0","3","7",
         "8","3","3","1","0","0","5",")">>,
     ISIN |-> <<"U","S","0","3","7","8","3","3","1","0","0","5">>,
     Descripcion |->
       <<"R","e","t","e","n","c","i","o'","n"," ","d","e","l"," ","d",
         "i","v","i","d","e","n","d","o">>,
     Unnamed8 |-> <<"-","2",".","3","3">>,
     Variacion |-> <<"E","U","R">>],
    \* 19: dividend without a product
    \*    "Dividendo"
    [columns |-> DegiroColumns,
     Fecha |-> <<"1","6","-","0","1","-","2","0","2","4">>,
     Producto |-> NaNText,
     ISIN |-> NaNText,
     Descripcion |->
       <<"D","i","v","i","d","e","n","d","o">>,
     Unnamed8 |-> <<"3",".","0","0">>,
     Variacion |-> <<"E","U","R">>],
    \* 20: buy 7 of a third ISIN whose product begins like the first one's
    \*    "Compra 7 APPLE HOSPITALITY@15 USD (US03784Y2000)"
    [columns |-> DegiroColumns,
     Fecha |-> <<"0","9","-","0","1","-","2","0","2","4">>,
     Producto |-> <<"A","P","P","L","E"," ","H","O","S","P","I","T","A","L","I","T",
         "Y"," ","R","E","I","T"," ","(","U","S","0","3","7","8","4","Y",
         "2","0","0","0",")">>,
     ISIN |-> <<"U","S","0","3","7","8","4","Y","2","0","0","0">>,
     Descripcion |->
       <<"C","o","m","p","r","a"," ","7"," ","A","P","P","L","E"," ","H",
         "O","S","P","I","T","A","L","I","T","Y","@","1","5"," ","U","S",
         "D"," ","(","U","S","0","3","7","8","4","Y","2","0","0","0",
         ")">>,
     Unnamed8 |-> <<"-","1","0","5",".","0","0">>,
     Variacion |-> <<"E","U","R">>],
    \* 21: test_postgres.py:20 as the test writes it: Cambio -1502.50, Saldo EUR 10000.00
    \*    "Compra 10 APPLE@150.25 USD (US0378331005)"
    [columns |-> TestColumns,
     Fecha |-> <<"0","1","-","0","1","-","2","0","2","4">>,
     Producto |-> <<"A","P","P","L","E"," ","I","N","C"," ","(","U","S","0","3","7",
         "8","3","3","1","0","0","5",")">>,
     ISIN |-> NaNText,
     Descripcion |->
       <<"C","o","m","p","r","a"," ","1","0"," ","A","P","P","L","E","@",
         "1","5","0",".","2","5"," ","U","S","D"," ","(","U","S","0","3",
         "7","8","3","3","1","0","0","5",")">>,
     Unnamed8 |-> NaNText,
     Variacion |-> NaNText],
    \* 22: test_postgres.py:21: Cambio 15.50, Saldo EUR 10015.50
    \*    "Dividend APPLE (US0378331005)"
    [columns |-> TestColumns,
     Fecha |-> <<"1","5","-","0","1","-","2","0","2","4">>,
     Producto |-> <<"A","P","P","L","E"," ","I","N","C"," ","(","U","S","0","3","7",
         "8","3","3","1","0","0","5",")">>,
     ISIN |-> NaNText,
     Descripcion |->
       <<"D","i","v","i","d","e","n","d"," ","A","P","P","L","E"," ","(",
         "U","S","0","3","7","8","3","3","1","0","0","5",")">>,
     Unnamed8 |-> NaNText,
     Variacion |-> NaNText],
    \* 23: test_postgres.py:22: Cambio 778.75, Saldo EUR 10794.25
    \*    "Venta 5 APPLE@155.75 USD (US0378331005)"
    [columns |-> TestColumns,
     Fecha |-> <<"0","1","-","0","2","-","2","0","2","4">>,
     Producto |-> <<"A","P","P","L","E"," ","I","N","C"," ","(","U","S","0","3","7",
         "8","3","3","1","0","0","5",")">>,
     ISIN |-> NaNText,
     Descripcion |->
       <<"V","e","n","t","a"," ","5"," ","A","P","P","L","E","@","1","5",
         "5",".","7","5"," ","U","S","D"," ","(","U","S","0","3","7","8",
         "3","3","1","0","0","5",")">>,
     Unnamed8 |-> NaNText,
     Variacion |-> NaNText],
    \* 24: buy 1 whose ISIN cell is empty
    \*    "Compra 1 APPLE@150.25 USD"
    [columns |-> DegiroColumns,
     Fecha |-> <<"1","0","-","0","1","-","2","0","2","4">>,
     Producto |-> <<"A","P","P","L","E"," ","I","N","C">>,
     ISIN |-> NaNText,
     Descripcion |->
       <<"C","o","m","p","r","a"," ","1"," ","A","P","P","L","E","@","1",
         "5","0",".","2","5"," ","U","S","D">>,
     Unnamed8 |-> <<"-","1","5","0",".","2","5">>,
     Variacion |-> <<"E","U","R">>]
>>

RowIds == 1..Len(RowPool)

\* the values of Op on the rows of the pool, computed once: <<Op(1), Op(2), ...>>
PoolTable(Op(_)) == SubSeq([id \in RowIds |-> Op(id)], 1, Len(RowPool))

(***************************************************************************)
(* degiro_processor_pg.py : load_degiro_data                               *)
(***************************************************************************)
CurrencyCodes == << <<"E","U","R">>, <<"U","S","D">>, <<"G","B","P">> >>

\* character class [\d\.,\-]
IsAmountChar(c) == IsDigit(c) \/ c = "." \/ c = "," \/ c = "-"

\* the match of r"([\d\.,\-]+)\s*(EUR|USD|GBP)" that starts at i, if any:
\* the longest run of the class, blanks, a currency code
AmountMatchAt(s, i) ==
    LET e == RunEnd(s, i, IsAmountChar)
        f == RunEnd(s, e + 1, IsSpace)
    IN  IF e < i THEN <<>>
        ELSE LET cs == {k \in 1..Len(CurrencyCodes) :
                            MatchAt(s, CurrencyCodes[k], f + 1)}
             IN  IF cs = {} THEN <<>>
                 ELSE << [num |-> SubSeq(s, i, e),
                          cur |-> CurrencyCodes[Min(cs)]] >>

\* Series.str.extract(r"([\d\.,\-]+)\s*(EUR|USD|GBP)"): the leftmost match,
\* NaN in both columns when there is none
ExtractAmount(s) ==
    LET starts == {i \in 1..Len(s) : AmountMatchAt(s, i) # <<>>}
    IN  IF IsNaText(s) \/ starts = {}
        THEN [num |-> NaNText, cur |-> NaNText]
        ELSE AmountMatchAt(s, Min(starts))[1]

\* number of occurrences of character c in s
Count(s, c) == Cardinality({i \in 1..Len(s) : s[i] = c})

\* two-digit fraction of a decimal part (hundredths; further digits are
\* below the resolution of the model)
Hundredths(frac) ==
    IF Len(frac) = 0 THEN 0
    ELSE IF Len(frac) = 1 THEN 10 * DigitValue(frac[1])
    ELSE 10 * DigitValue(frac[1]) + DigitValue(frac[2])

\* pd.to_numeric(token, errors="coerce") on a token of the amount class:
\* an optional sign, digits with at most one decimal point; anything else
\* (a decimal comma, a second point, no digit) is coerced to NaN
ToNumeric(tok) ==
    IF IsNaText(tok) \/ Len(tok) = 0 THEN NaNNum
    ELSE LET neg  == tok[1] = "-"
             body == IF neg THEN Tail(tok) ELSE tok
             dots == {i \in 1..Len(body) : body[i] = "."}
         IN  IF \/ Count(body, ",") > 0
                \/ Count(body, "-") > 0
                \/ Cardinality(dots) > 1
                \/ \A i \in 1..Len(body) : ~IsDigit(body[i])
             THEN NaNNum
             ELSE LET d  == IF dots = {} THEN Len(body) + 1 ELSE Min(dots)
                      ip == ParseNat(SubSeq(body, 1, d - 1))
                      fp == Hundredths(SubSeq(body, d + 1, Len(body)))
                      v  == 100 * ip + fp
                  IN  Num(IF neg THEN -v ELSE v)

\* pd.to_datetime(text, dayfirst=True) for the export's DD-MM-YYYY dates:
\* <<date>>, or <<>> for the ValueError raised on text that is no date
ToDatetime(t) ==
    IF /\ Len(t) = 10
       /\ t[3] = "-" /\ t[6] = "-"
       /\ \A i \in {1,2,4,5,7,8,9,10} : IsDigit(t[i])
       /\ ParseNat(SubSeq(t, 1, 2)) \in 1..31
       /\ ParseNat(SubSeq(t, 4, 5)) \in 1..12
    THEN << [year  |-> ParseNat(SubSeq(t, 7, 10)),
             month |-> ParseNat(SubSeq(t, 4, 5)),
             day   |-> ParseNat(SubSeq(t, 1, 2))] >>
    ELSE <<>>

\* [A-Z0-9]
IsUpperOrDigit(c) == IsUpperAZ(c) \/ IsDigit(c)

\* r"\(([A-Z]{2}[A-Z0-9]{9}[0-9])\)" matches at i (the opening parenthesis)
ProductIsinAt(s, i) ==
    /\ i >= 1 /\ i + 13 <= Len(s)
    /\ s[i] = "(" /\ s[i + 13] = ")"
    /\ IsUpperAZ(s[i + 1]) /\ IsUpperAZ(s[i + 2])
    /\ \A k \in 3..11 : IsUpperOrDigit(s[i + k])
    /\ IsDigit(s[i + 12])

\* df["product"].str.extract(r"\(([A-Z]{2}[A-Z0-9]{9}[0-9])\)")
ExtractProductIsin(s) ==
    LET at == {i \in 1..Len(s) : ProductIsinAt(s, i)}
    IN  IF IsNaText(s) \/ at = {} THEN NaNText
        ELSE SubSeq(s, Min(at) + 1, Min(at) + 12)

\* df["product"].str.replace(r"\s*\([A-Z]{2}[A-Z0-9]{9}[0-9]\)", "", regex=True):
\* every parenthesised ISIN is removed together with the blanks before it
RECURSIVE StripProductIsin(_)
StripProductIsin(s) ==
    LET at == {i \in 1..Len(s) : ProductIsinAt(s, i)}
    IN  IF IsNaText(s) \/ at = {} THEN s
        ELSE LET i == Min(at)
                 b == CHOOSE j \in 1..i :
                        /\ \A k \in j..(i - 1) : IsSpace(s[k])
                        /\ (j = 1 \/ ~IsSpace(s[j - 1]))
             IN  SubSeq(s, 1, b - 1) \o StripProductIsin(SubSeq(s, i + 14, Len(s)))

\* one row of the DataFrame load_degiro_data returns (the row's index into
\* the pool is kept as src; balance columns are not modelled)
\* (Unnamed: 8).astype(str) + " " + Variacion, .fillna("0 EUR")
JoinedAmount(r) ==
    IF IsNaText(r.Variacion) THEN <<"0"," ","E","U","R">>
    ELSE (IF IsNaText(r.Unnamed8) THEN <<"n","a","n">> ELSE r.Unnamed8)
         \o <<" ">> \o r.Variacion

\* df["Unnamed: 8"], df["Variacion"], df["Unnamed: 10"] and df["Saldo"] are
\* columns of the file (a KeyError otherwise)
HasAmountColumns(csv) ==
    \A i \in 1..Len(csv) :
        {"Unnamed: 8", "Variacion", "Unnamed: 10", "Saldo"} \subseteq RowPool[csv[i]].columns

LoadRowPG(id) ==
    With(RowPool[id], LAMBDA r :
    With(ExtractAmount(JoinedAmount(r)), LAMBDA am :
    With(ToNumeric(am.num), LAMBDA amt :
        [src                  |-> id,
         date                 |-> ToDatetime(r.Fecha),
         product              |-> StripProductIsin(r.Producto),
         original_description |-> r.Descripcion,
         amount               |-> amt,
         amount_currency      |-> am.cur,
         amount_EUR           |-> amt,
         ISIN                 |-> ExtractProductIsin(r.Producto)])))

\* LoadRowPG on every row of the pool
LoadedRowsPG == PoolTable(LoadRowPG)

\* load_degiro_data: rows without Fecha are dropped; a Fecha that is no date
\* (date = <<>>) makes pd.to_datetime raise, and a file without the amount
\* and balance columns makes their selection raise, which load_degiro_data
\* re-raises
LoadDegiroDataPG(csv) ==
    With(SelectSeq(csv, LAMBDA id : ~IsNaText(RowPool[id].Fecha)), LAMBDA kept :
    With(SubSeq([i \in 1..Len(kept) |-> LoadedRowsPG[kept[i]]], 1, Len(kept)),
         LAMBDA rows :
        IF \E i \in 1..Len(rows) : rows[i].date = <<>>
        THEN [ok |-> FALSE, df |-> <<>>]
        ELSE IF ~HasAmountColumns(csv)
        THEN [ok |-> FALSE, df |-> <<>>]
        ELSE [ok |-> TRUE, df |-> rows]))

(***************************************************************************)
(* degiro_processor_pg.py : categorize_transactions and the _process_*     *)
(* helpers                                                                 *)
(***************************************************************************)
\* "compra", "buy"   (the third pattern, "escisio'n.*compra", is BuyEscision)
buy_patterns == << <<"c","o","m","p","r","a">>, <<"b","u","y">> >>
\* "venta", "sell"
sell_patterns == << <<"v","e","n","t","a">>, <<"s","e","l","l">> >>
\* "dividend", "dividendo", "div\.", "distribution"
dividend_patterns ==
    << <<"d","i","v","i","d","e","n","d">>,
       <<"d","i","v","i","d","e","n","d","o">>,
       <<"d","i","v",".">>,
       <<"d","i","s","t","r","i","b","u","t","i","o","n">> >>
\* "depo'sito", "deposit", "transferencia", "transfer"
deposit_patterns ==
    << <<"d","e","p","o'","s","i","t","o">>,
       <<"d","e","p","o","s","i","t">>,
       <<"t","r","a","n","s","f","e","r","e","n","c","i","a">>,
       <<"t","r","a","n","s","f","e","r">> >>
\* "comisio'n", "commission", "fee", "cargo", "coste", "cost"
fee_patterns ==
    << <<"c","o","m","i","s","i","o'","n">>,
       <<"c","o","m","m","i","s","s","i","o","n">>,
       <<"f","e","e">>,
       <<"c","a","r","g","o">>,
       <<"c","o","s","t","e">>,
       <<"c","o","s","t">> >>

\* the categories in the order categorize_transactions walks them
Categories == <<"buys", "sells", "dividends", "deposits", "fees">>

ContainsAny(s, pats) == \E k \in 1..Len(pats) : Contains(s, pats[k])

\* r"escisio'n.*compra": "escisio'n" and, anywhere after it, "compra"
BuyEscision(s) ==
    \E i \in 1..Len(s) : \E j \in 1..Len(s) :
        /\ MatchAt(s, <<"e","s","c","i","s","i","o'","n">>, i)
        /\ j >= i + 8
        /\ MatchAt(s, <<"c","o","m","p","r","a">>, j)

\* df["description"] = df["original_description"].str.lower().str.strip()
DescriptionPG(orig) == IF IsNaText(orig) THEN NaNText ELSE Strip(Lower(orig))

\* mask = df["description"].str.contains("|".join(patterns), regex=True, na=False)
MaskPG(category, description) ==
    /\ ~IsNaText(description)
    /\ CASE category = "buys"      -> ContainsAny(description, buy_patterns)
                                      \/ BuyEscision(description)
         [] category = "sells"     -> ContainsAny(description, sell_patterns)
         [] category = "dividends" -> ContainsAny(description, dividend_patterns)
         [] category = "deposits"  -> ContainsAny(description, deposit_patterns)
         [] category = "fees"      -> ContainsAny(description, fee_patterns)

\* the verbs of shares_pattern, lower case (the search is case-insensitive)
TradeVerbs == << <<"c","o","m","p","r","a">>, <<"b","u","y">>,
                 <<"v","e","n","t","a">>, <<"s","e","l","l">> >>

\* the digits captured by r"(?:compra|buy|venta|sell)\s+(\d+)" when it matches
\* at position i of the lower-cased text, else <<>>
SharesMatchAt(low, i) ==
    LET vs == {k \in 1..Len(TradeVerbs) : MatchAt(low, TradeVerbs[k], i)}
    IN  IF vs = {} THEN <<>>
        ELSE LET j == i + Len(TradeVerbs[Min(vs)])
                 e == RunEnd(low, j, IsSpace)
                 d == RunEnd(low, e + 1, IsDigit)
             IN  IF e >= j /\ d >= e + 1 THEN SubSeq(low, e + 1, d) ELSE <<>>

\* pd.to_numeric(str.extract(shares_pattern, IGNORECASE)[0]).fillna(0).astype(int)
ExtractSharesPG(orig) ==
    With(Lower(orig), LAMBDA low :
    With({i \in 1..Len(low) : SharesMatchAt(low, i) # <<>>}, LAMBDA at :
        IF IsNaText(orig) \/ at = {} THEN 0
        ELSE ParseNat(SharesMatchAt(low, Min(at)))))

\* a price is kept as the exact quotient num/den
ZeroPrice == [num |-> 0, den |-> 1]

\* _process_trades
ProcessTrades(row, trade_type) ==
    With(ExtractSharesPG(row.original_description), LAMBDA shares :
        [src                  |-> row.src,
         date                 |-> row.date,
         product              |-> row.product,
         original_description |-> row.original_description,
         description          |-> DescriptionPG(row.original_description),
         ISIN                 |-> row.ISIN,
         amount_EUR           |-> row.amount_EUR,
         shares               |-> shares,
         \* df.loc[shares > 0, "price"] = abs(amount_EUR) / shares
         price                |-> IF shares > 0
                                  THEN (IF IsNaN(row.amount_EUR) THEN NaNNum
                                        ELSE Num([num |-> Abs(Val(row.amount_EUR)),
                                                  den |-> shares]))
                                  ELSE Num(ZeroPrice),
         \* (shares > 0) & (abs(amount_EUR) > 0); a comparison with NaN is False
         is_valid             |-> /\ shares > 0
                                  /\ ~IsNaN(row.amount_EUR)
                                  /\ Abs(Val(row.amount_EUR)) > 0,
         \* trade_type.rstrip("s")
         category             |-> IF trade_type = "buys" THEN "buy" ELSE "sell"])

\* _process_dividends, _process_deposits, _process_fees
ProcessOther(row, category) ==
    [src                  |-> row.src,
     date                 |-> row.date,
     product              |-> row.product,
     original_description |-> row.original_description,
     description          |-> DescriptionPG(row.original_description),
     ISIN                 |-> row.ISIN,
     amount_EUR           |-> row.amount_EUR,
     shares               |-> 0,
     price                |-> Num(ZeroPrice),
     is_valid             |->
        CASE category = "dividends" ->   \* amount_EUR != 0  (NaN != 0 is True)
                IsNaN(row.amount_EUR) \/ Val(row.amount_EUR) # 0
          [] category = "deposits"  ->   \* amount_EUR > 0
                ~IsNaN(row.amount_EUR) /\ Val(row.amount_EUR) > 0
          [] category = "fees"      ->   \* amount_EUR < 0
                ~IsNaN(row.amount_EUR) /\ Val(row.amount_EUR) < 0,
     category             |->
        CASE category = "dividends" -> "dividend"
          [] category = "deposits"  -> "deposit"
          [] category = "fees"      -> "fee"]

ProcessCategory(row, category) ==
    IF category \in {"buys", "sells"} THEN ProcessTrades(row, category)
    ELSE ProcessOther(row, category)

\* what one loaded row contributes to each category: <<>> when the mask of
\* the category does not select it, else the processed row
CategorizeRow(id) ==
    With(LoadedRowsPG[id], LAMBDA row :
    With(DescriptionPG(row.original_description), LAMBDA description :
        [c \in Range(Categories) |->
            IF MaskPG(c, description)
            THEN <<ProcessCategory(row, c)>> ELSE <<>>]))

\* CategorizeRow on every row of the pool
CategorizedRowsPG == PoolTable(CategorizeRow)

\* the rows of df selected by the mask of one category, processed
CategoryRows(df, category) ==
    Flatten(SubSeq([i \in 1..Len(df) |-> CategorizedRowsPG[df[i].src][category]],
                   1, Len(df)))

\* categorize_transactions: one DataFrame per category (empty when no row
\* matches); every category's mask is evaluated on the whole df
CategorizeTransactions(df) ==
    [c \in Range(Categories) |-> CategoryRows(df, c)]

(***************************************************************************)
(* Ordering of texts (groupby sorts its keys).                             *)
(***************************************************************************)
CharOrder == DigitChars \o UpperChars \o LowerChars
CharOrd(c) == IF \E i \in 1..Len(CharOrder) : CharOrder[i] = c
              THEN CHOOSE i \in 1..Len(CharOrder) : CharOrder[i] = c
              ELSE 0

\* a < b, lexicographically
TextLess(a, b) ==
    \E i \in 1..(Len(a) + 1) :
        /\ i <= Len(b)
        /\ \A k \in 1..(i - 1) : a[k] = b[k]
        /\ (i = Len(a) + 1 \/ CharOrd(a[i]) < CharOrd(b[i]))

\* the texts of a finite set, in ascending order
RECURSIVE SortTexts(_)
SortTexts(S) ==
    IF S = {} THEN <<>>
    ELSE LET m == CHOOSE x \in S : \A y \in S \ {x} : TextLess(x, y)
         IN  <<m>> \o SortTexts(S \ {m})

\* the elements of a sequence without repetition, in order of first occurrence
\* (Series.unique())
RECURSIVE Unique(_)
Unique(s) ==
    IF Len(s) = 0 THEN <<>>
    ELSE LET init == Unique(SubSeq(s, 1, Len(s) - 1))
             x    == s[Len(s)]
         IN  IF x \in Range(init) THEN init ELSE Append(init, x)

RECURSIVE SumSeq(_)
SumSeq(s) == IF Len(s) = 0 THEN 0 ELSE Head(s) + SumSeq(Tail(s))

(***************************************************************************)
(* degiro_processor_pg.py : get_current_prices                             *)
(*                                                                         *)
(* What the quote service answers for one symbol: the request raises, the  *)
(* status is not 200, or the JSON body carries "c" (a price, possibly 0)   *)
(* or no usable "c".  Prices are in cents.                                 *)
(***************************************************************************)
QuotePrice == 15025

Responses ==
    { [outcome |-> "exception",  c |-> NaNNum],
      [outcome |-> "status_500", c |-> NaNNum],
      [outcome |-> "status_200", c |-> NaNNum],
      [outcome |-> "status_200", c |-> Num(0)],
      [outcome |-> "status_200", c |-> Num(QuotePrice)] }

\* get_current_prices with a second attempt for every symbol
QueriedWithRetry(symbols) ==
    SelectSeq(symbols \o symbols, LAMBDA s : ~IsNaText(s) /\ Len(s) > 0)

\* the symbols for which requests.get is called: the empty ones are skipped
QueriedSymbols(symbols) == SelectSeq(symbols, LAMBDA s : ~IsNaText(s) /\ Len(s) > 0)

\* the entry of the prices dict for one symbol, <<>> when the symbol gets none
PriceEntry(resp) ==
    IF resp.outcome = "status_200" /\ ~IsNaN(resp.c)
    THEN << [current_price |-> resp.c, currency |-> <<"U","S","D">>,
             source |-> "finnhub"] >>
    ELSE <<>>

\* get_current_prices without the try/except inside the loop: a request that
\* raises ends the loop and no price is returned
GetCurrentPricesUncaught(symbols, quote) ==
    IF \E s \in Range(QueriedSymbols(symbols)) : quote[s].outcome = "exception"
    THEN [s \in {} |-> PriceEntry(quote[s])]
    ELSE [s \in {t \in Range(QueriedSymbols(symbols)) : PriceEntry(quote[t]) # <<>>}
            |-> PriceEntry(quote[s])[1]]

\* get_current_prices: the dict symbol -> entry, as a function on the symbols
\* that got an entry; quote[s] is the service's answer for symbol s
GetCurrentPrices(symbols, quote) ==
    [s \in {t \in Range(QueriedSymbols(symbols)) : PriceEntry(quote[t]) # <<>>}
        |-> PriceEntry(quote[s])[1]]

(***************************************************************************)
(* degiro_processor_pg.py : calculate_holdings                             *)
(***************************************************************************)
\* r"\(([A-Z]{2}[A-Z0-9]{10})\)" matches at i (the opening parenthesis)
DescIsinAt(s, i) ==
    /\ i >= 1 /\ i + 13 <= Len(s)
    /\ s[i] = "(" /\ s[i + 13] = ")"
    /\ IsUpperAZ(s[i + 1]) /\ IsUpperAZ(s[i + 2])
    /\ \A k \in 3..12 : IsUpperOrDigit(s[i + k])

\* buys_df["original_description"].str.extract(isin_pattern)[0]
ExtractDescIsin(s) ==
    LET at == {i \in 1..Len(s) : DescIsinAt(s, i)}
    IN  IF IsNaText(s) \/ at = {} THEN NaNText
        ELSE SubSeq(s, Min(at) + 1, Min(at) + 12)

\* the ISIN column of buys_df: re-extracted from the descriptions when the
\* column is null in every buy row
BuysWithIsin(buys) ==
    IF \A i \in 1..Len(buys) : IsNaText(buys[i].ISIN)
    THEN [i \in 1..Len(buys) |->
            [buys[i] EXCEPT !.ISIN = ExtractDescIsin(buys[i].original_description)]]
    ELSE buys

\* valid_buys = buys_df[buys_df["ISIN"].notna()]
ValidBuys(buys) == SelectSeq(BuysWithIsin(buys), LAMBDA r : ~IsNaText(r.ISIN))

\* a grouping by ISIN and product name: the shares of the rows that carry
\* the product name of the first row of the ISIN
SharesOfFirstProduct(rows, isin) ==
    LET at == {i \in 1..Len(rows) : rows[i].ISIN = isin}
    IN  SumSeq([i \in 1..Len(rows) |->
                  IF i \in at /\ rows[i].product = rows[Min(at)].product
                  THEN rows[i].shares ELSE 0])

\* groupby(["ISIN"]).agg({"shares": "sum"}) for one key
SharesOfIsin(rows, isin) ==
    SumSeq([i \in 1..Len(rows) |-> IF rows[i].ISIN = isin THEN rows[i].shares ELSE 0])

\* agg "product": "first": the first non-null product of the group
FirstProduct(rows, isin) ==
    LET at == {i \in 1..Len(rows) : rows[i].ISIN = isin /\ ~IsNaText(rows[i].product)}
    IN  IF at = {} THEN NaNText ELSE rows[Min(at)].product

\* shares sold per ISIN as merged in: sells grouped by ISIN (rows with a
\* null ISIN form no group), left-joined, missing total filled with 0
SharesSold(sells, isin) ==
    SharesOfIsin(SelectSeq(sells, LAMBDA r : ~IsNaText(r.ISIN)), isin)

\* unique_holdings after grouping, subtracting the sells and keeping shares > 0
UniqueHoldings(transactions) ==
    With(ValidBuys(transactions["buys"]), LAMBDA valid_buys :
    With(SortTexts({valid_buys[i].ISIN : i \in 1..Len(valid_buys)}), LAMBDA isins :
        SelectSeq([i \in 1..Len(isins) |->
                      [ISIN    |-> isins[i],
                       shares  |-> SharesOfIsin(valid_buys, isins[i])
                                   - SharesSold(transactions["sells"], isins[i]),
                       product |-> FirstProduct(valid_buys, isins[i])]],
                  LAMBDA g : g.shares > 0)))

\* unique_holdings["product"].str.extract(r"([A-Z]{1,5})")[0]: the first
\* upper-case letter and up to four that follow it directly
ExtractSymbol(product) ==
    LET at == {i \in 1..Len(product) : IsUpperAZ(product[i])}
    IN  IF IsNaText(product) \/ at = {} THEN NaNText
        ELSE LET i == Min(at)
                 e == RunEnd(product, i, IsUpperAZ)
             IN  SubSeq(product, i, IF e > i + 4 THEN i + 4 ELSE e)

\* symbols = unique_holdings["symbol"].dropna().unique().tolist()
SymbolsOf(unique_holdings) ==
    Unique(SelectSeq([i \in 1..Len(unique_holdings) |->
                         ExtractSymbol(unique_holdings[i].product)],
                     LAMBDA s : ~IsNaText(s)))

HoldingSymbols(transactions) == With(UniqueHoldings(transactions), SymbolsOf)

\* one record appended to holdings
HoldingRow(g, current_prices) ==
    With(ExtractSymbol(g.product), LAMBDA symbol :
    With(symbol \in DOMAIN current_prices, LAMBDA has :
    With(IF has THEN current_prices[symbol].current_price ELSE NaNNum, LAMBDA price :
        [isin           |-> g.ISIN,
         company_name   |-> g.product,
         symbol         |-> symbol,
         shares_held    |-> g.shares,
         current_price  |-> price,
         currency       |-> IF has THEN current_prices[symbol].currency
                            ELSE <<"E","U","R">>,
         \* shares * price if price_data.get("current_price") else 0
         position_value |-> IF ~IsNaN(price) /\ Val(price) # 0
                            THEN g.shares * Val(price) ELSE 0,
         source         |-> IF has THEN current_prices[symbol].source
                            ELSE "unknown"])))

\* calculate_holdings: the holdings DataFrame as a sequence of rows
\* (fetch_date and fetch_timestamp, readings of the clock, are left out)
CalculateHoldings(transactions, quote) ==
    IF Len(transactions["buys"]) = 0 THEN <<>>
    ELSE With(UniqueHoldings(transactions), LAMBDA uh :
         With(GetCurrentPrices(SymbolsOf(uh), quote), LAMBDA prices :
             SubSeq([i \in 1..Len(uh) |-> HoldingRow(uh[i], prices)], 1, Len(uh))))

\* the requests calculate_holdings makes through get_current_prices, in
\* order: one requests.get per symbol of the loop that is not skipped
LookupsOf(transactions) ==
    IF Len(transactions["buys"]) = 0 THEN <<>>
    ELSE QueriedSymbols(HoldingSymbols(transactions))

\* the answers the quote service may give to the lookups of one reconciliation
QuoteChoices(transactions) ==
    [Range(QueriedSymbols(HoldingSymbols(transactions))) -> Responses]

(***************************************************************************)
(* generate_datasets.py : load_degiro_data, process_description,           *)
(* process_transaction, preprocess_data, filter_not_needed_rows, currency  *)
(* conversion                                                              *)
(***************************************************************************)
\* one row of the DataFrame generate_datasets.load_degiro_data returns: the
\* ISIN is the export's own column and the product is left as it is
LoadRowGen(id) ==
    With(RowPool[id], LAMBDA r :
    With(ExtractAmount(JoinedAmount(r)), LAMBDA am :
        [src                  |-> id,
         date                 |-> ToDatetime(r.Fecha),
         product              |-> r.Producto,
         ISIN                 |-> r.ISIN,
         original_description |-> r.Descripcion,
         amount               |-> ToNumeric(am.num),
         amount_currency      |-> am.cur]))

\* LoadRowGen on every row of the pool
LoadedRowsGen == PoolTable(LoadRowGen)

\* generate_datasets.load_degiro_data
LoadDegiroDataGen(csv) ==
    With(SelectSeq(csv, LAMBDA id : ~IsNaText(RowPool[id].Fecha)), LAMBDA kept :
    With(SubSeq([i \in 1..Len(kept) |-> LoadedRowsGen[kept[i]]], 1, Len(kept)),
         LAMBDA rows :
        IF \E i \in 1..Len(rows) : rows[i].date = <<>>
        THEN [ok |-> FALSE, df |-> <<>>]
        ELSE IF ~HasAmountColumns(csv)
        THEN [ok |-> FALSE, df |-> <<>>]
        ELSE [ok |-> TRUE, df |-> rows]))

\* the corporate-action markers that keep a "compra "/"venta " row from being
\* a plain buy or sell
NoCorporateMarker(x) ==
    /\ ~Contains(x, <<"s","t","o","c","k"," ","s","p","l","i","t">>)
    /\ ~Contains(x, <<"f","u","s","i","o'","n">>)
    /\ ~Contains(x, <<"e","s","c","i","s","i","o'","n">>)
    /\ ~Contains(x, <<"c","a","m","b","i","o"," ","d","e"," ","p","r","o","d","u","c","t","o">>)
    /\ ~Contains(x, <<"c","a","m","b","i","o"," ","d","e"," ","i","s","i","n">>)
    /\ ~Contains(x, <<"c","o","n","v","e","r","s","i","o'","n"," ","f","o","n","d","o","s"," ","d","e","l"," ","m","e","r","c","a","d","o"," ","m","o","n","e","t","a","r","i","o">>)

\* process_description (str(NaN) is "nan")
process_description(orig) ==
    With(Lower(IF IsNaText(orig) THEN <<"n","a","n">> ELSE orig), LAMBDA x :
    With(Contains(x, <<"c","o","m","p","r","a"," ">>), LAMBDA compra :
    With(Contains(x, <<"v","e","n","t","a"," ">>), LAMBDA venta :
        IF Contains(x, <<"t","r","a","n","s","f","e","r","i","r"," ","a"," ","s","u"," ","c","u","e","n","t","a"," ","d","e"," ","e","f","e","c","t","i","v","o">>)
            THEN <<"T","r","a","n","s","f","e","r","e","n","c","i","a"," ","a"," ","c","u","e","n","t","a"," ","d","e"," ","e","f","e","c","t","i","v","o">>
        ELSE IF Contains(x, <<"t","r","a","n","s","f","e","r","i","r"," ","d","e","s","d","e"," ","s","u"," ","c","u","e","n","t","a"," ","d","e"," ","e","f","e","c","t","i","v","o"," ">>)
            THEN <<"T","r","a","n","s","f","e","r","e","n","c","i","a"," ","d","e","s","d","e"," ","c","u","e","n","t","a"," ","d","e"," ","e","f","e","c","t","i","v","o">>
        ELSE IF compra /\ NoCorporateMarker(x) THEN <<"C","o","m","p","r","a">>
        ELSE IF venta /\ NoCorporateMarker(x) THEN <<"V","e","n","t","a">>
        ELSE IF venta /\ Contains(x, <<"s","t","o","c","k"," ","s","p","l","i","t">>) THEN <<"V","e","n","t","a"," ","-"," ","S","t","o","c","k"," ","s","p","l","i","t">>
        ELSE IF compra /\ Contains(x, <<"s","t","o","c","k"," ","s","p","l","i","t">>) THEN <<"C","o","m","p","r","a"," ","-"," ","S","t","o","c","k"," ","s","p","l","i","t">>
        ELSE IF venta /\ Contains(x, <<"c","o","n","v","e","r","s","i","o'","n"," ","f","o","n","d","o","s"," ","d","e","l"," ","m","e","r","c","a","d","o"," ","m","o","n","e","t","a","r","i","o">>)
            THEN <<"V","e","n","t","a"," ","-"," ","C","o","n","v","e","r","s","i","o'","n"," ","f","o","n","d","o","s"," ","d","e","l"," ","m","e","r","c","a","d","o"," ","m","o","n","e","t","a","r","i","o">>
        ELSE IF compra /\ Contains(x, <<"c","o","n","v","e","r","s","i","o'","n"," ","f","o","n","d","o","s"," ","d","e","l"," ","m","e","r","c","a","d","o"," ","m","o","n","e","t","a","r","i","o">>)
            THEN <<"C","o","m","p","r","a"," ","-"," ","C","o","n","v","e","r","s","i","o'","n"," ","f","o","n","d","o","s"," ","d","e","l"," ","m","e","r","c","a","d","o"," ","m","o","n","e","t","a","r","i","o">>
        ELSE IF venta /\ Contains(x, <<"f","u","s","i","o'","n">>) THEN <<"V","e","n","t","a"," ","-"," ","F","u","s","i","o'","n">>
        ELSE IF compra /\ Contains(x, <<"f","u","s","i","o'","n">>) THEN <<"C","o","m","p","r","a"," ","-"," ","F","u","s","i","o'","n">>
        ELSE IF venta /\ Contains(x, <<"e","s","c","i","s","i","o'","n">>) THEN <<"V","e","n","t","a"," ","-"," ","E","s","c","i","s","i","o'","n">>
        ELSE IF compra /\ Contains(x, <<"e","s","c","i","s","i","o'","n">>) THEN <<"C","o","m","p","r","a"," ","-"," ","E","s","c","i","s","i","o'","n">>
        ELSE IF venta /\ Contains(x, <<"c","a","m","b","i","o"," ","d","e"," ","i","s","i","n">>) THEN <<"V","e","n","t","a"," ","-"," ","C","a","m","b","i","o"," ","d","e"," ","I","S","I","N">>
        ELSE IF compra /\ Contains(x, <<"c","a","m","b","i","o"," ","d","e"," ","i","s","i","n">>) THEN <<"C","o","m","p","r","a"," ","-"," ","C","a","m","b","i","o"," ","d","e"," ","I","S","I","N">>
        ELSE IF venta /\ Contains(x, <<"c","a","m","b","i","o"," ","d","e"," ","p","r","o","d","u","c","t","o">>)
            THEN <<"V","e","n","t","a"," ","-"," ","C","a","m","b","i","o"," ","d","e"," ","p","r","o","d","u","c","t","o">>
        ELSE IF compra /\ Contains(x, <<"c","a","m","b","i","o"," ","d","e"," ","p","r","o","d","u","c","t","o">>)
            THEN <<"C","o","m","p","r","a"," ","-"," ","C","a","m","b","i","o"," ","d","e"," ","p","r","o","d","u","c","t","o">>
        ELSE IF Contains(x, <<"c","o","m","i","s","i","o'","n"," ","d","e"," ","c","o","n","e","c","t","i","v","i","d","a","d"," ">>) THEN <<"C","o","m","i","s","i","o'","n"," ","d","e"," ","c","o","n","e","c","t","i","v","i","d","a","d">>
        ELSE IF Contains(x, <<"f","l","a","t","e","x"," ","d","e","p","o","s","i","t">>) THEN <<"I","n","g","r","e","s","o"," ","a"," ","D","e","G","i","r","o"," ","d","e","s","d","e"," ","I","N","G">>
        ELSE IF x = <<"i","n","g","r","e","s","o">> THEN <<"I","n","g","r","e","s","o"," ","a"," ","D","e","G","i","r","o"," ","d","e","s","d","e"," ","I","N","G">>
        ELSE x)))

\* process_transaction followed by .str.lower(): the category label
process_transaction(description) ==
    With(Lower(description), LAMBDA x :
        IF Contains(x, <<"c","o","m","p","r","a">>) THEN "compra"
        ELSE IF Contains(x, <<"v","e","n","t","a">>) THEN "venta"
        ELSE IF Contains(x, <<"v","e","n","t","a">>) /\ Contains(x, <<"i","s","i","n">>) THEN "cambio corporativo"
        ELSE IF Contains(x, <<"v","e","n","t","a">>) /\ Contains(x, <<"p","r","o","d","u","c","t","o">>) THEN "cambio corporativo"
        ELSE IF Contains(x, <<"v","e","n","t","a">>) /\ Contains(x, <<"e","s","c","i","s","i","o'","n">>) THEN "cambio corporativo"
        ELSE IF Contains(x, <<"v","e","n","t","a">>) /\ Contains(x, <<"f","u","s","i","o'","n">>) THEN "cambio corporativo"
        ELSE IF Contains(x, <<"s","t","o","c","k"," ","s","p","l","i","t">>) THEN "cambio corporativo"
        ELSE IF Contains(x, <<"c","a","m","b","i","o"," ","d","e"," ","d","i","v","i","s","a">>) THEN "cambio de divisa"
        ELSE IF Contains(x, <<"c","a","s","h"," ","s","w","e","e","p"," ","t","r","a","n","s","f","e","r">>) THEN "transferencia interna"
        ELSE IF Contains(x, <<"i","n","g","r","e","s","o">>) THEN "ingreso"
        ELSE IF Contains(x, <<"w","i","t","h","d","r","a","w","a","l">>) THEN "retiro"
        ELSE IF Contains(x, <<"c","o","s","t","e","s">>) \/ Contains(x, <<"c","o","s","t","e"," ","d","e"," ","l","a"," ","a","c","c","i","o'","n">>)
            THEN "comisio'n"
        ELSE IF Contains(x, <<"s","t","a","m","p"," ","d","u","t","y">>) THEN "impuesto"
        ELSE IF Contains(x, <<"d","i","v","i","d","e","n","d","o">>) THEN "dividendo"
        ELSE "otro")

\* the columns preprocess_data adds to one row
PreprocessRow(id) ==
    With(LoadedRowsGen[id], LAMBDA row :
    With(Lower(process_description(row.original_description)), LAMBDA description :
        [src                  |-> row.src,
         date                 |-> row.date,
         product              |-> row.product,
         ISIN                 |-> row.ISIN,
         original_description |-> row.original_description,
         amount               |-> row.amount,
         amount_currency      |-> row.amount_currency,
         description          |-> description,
         category             |-> process_transaction(description),
         \* df["ISIN"].str[0:2].fillna("None")
         country              |-> IF IsNaText(row.ISIN) THEN <<"N","o","n","e">>
                                  ELSE SubSeq(row.ISIN, 1,
                                              IF Len(row.ISIN) < 2 THEN Len(row.ISIN) ELSE 2)]))

\* two rows agree on every column (src is the model's bookkeeping, not a column)
SameRow(a, b) == [a EXCEPT !.src = 0] = [b EXCEPT !.src = 0]

\* df.drop_duplicates(...): the first of several equal rows is kept
DropDuplicates(df) ==
    With(SelectSeq([i \in 1..Len(df) |-> i],
                   LAMBDA i : \A j \in 1..(i - 1) : ~SameRow(df[j], df[i])),
         LAMBDA keep : SubSeq([k \in 1..Len(keep) |-> df[keep[k]]], 1, Len(keep)))

\* PreprocessRow on every row of the pool
PreprocessedRows == PoolTable(PreprocessRow)

\* preprocess_data
PreprocessData(df) ==
    With(SubSeq([i \in 1..Len(df) |-> PreprocessedRows[df[i].src]], 1, Len(df)),
         DropDuplicates)

\* the descriptions filter_not_needed_rows compares with
Denylist ==
    { <<"F","l","a","t","e","x"," ","I","n","t","e","r","e","s","t"," ","I","n","c","o","m","e">>,
      <<"F","l","a","t","e","x"," ","I","n","t","e","r","e","s","t">>,
      <<"C","o","m","i","s","i","o'","n"," ","d","e"," ","c","o","n","e","c","t","i","v","i","d","a","d">>,
      <<"A","D","R","/","G","D","R"," ","P","a","s","s","-","T","h","r","o","u","g","h"," ","F","e","e">>,
      <<"R","e","n","d","i","m","i","e","n","t","o"," ","d","e"," ","c","a","p","i","t","a","l">>,
      <<"F","o","n","d","o","s"," ","d","e","l"," ","m","e","r","c","a","d","o"," ","m","o","n","e","t","a","r","i","o"," ","c","a","m","b","i","o"," ","d","e"," ","p","r","e","c","i","o"," ","(","E","U","R",")">>,
      <<"V","e","n","t","a"," ","-"," ","C","o","n","v","e","r","s","i","o'","n"," ","f","o","n","d","o","s"," ","d","e","l"," ","m","e","r","c","a","d","o"," ","m","o","n","e","t","a","r","i","o">>,
      <<"T","r","a","n","s","f","e","r","e","n","c","i","a"," ","d","e","s","d","e"," ","c","u","e","n","t","a"," ","d","e"," ","e","f","e","c","t","i","v","o">>,
      <<"T","r","a","n","s","f","e","r","e","n","c","i","a"," ","a"," ","c","u","e","n","t","a"," ","d","e"," ","e","f","e","c","t","i","v","o">> }

\* the description filters alone, without the filter on the currency
FilterDescriptionsOnly(df) ==
    SelectSeq(df, LAMBDA row : row.description \notin Denylist)

\* filter_not_needed_rows
FilterNotNeededRows(df) ==
    SelectSeq(df, LAMBDA row :
        /\ row.description \notin Denylist
        /\ row.amount_currency \in {<<"U","S","D">>, <<"E","U","R">>})

\* the EUR_to_USD rate of the exchange-rate file, in hundredths (1.10)
EurToUsd == 110

\* n / d rounded to the nearest integer (the .round(2) of an amount in cents)
RoundDiv(n, d) ==
    IF n >= 0 THEN (2 * n + d) \div (2 * d) ELSE -((2 * (-n) + d) \div (2 * d))

\* apply_currency_conversion_rates on one amount:
\* np.where(currency == "EUR", amount, amount / EUR_to_USD).round(2)
ConvertToEUR(amount, currency) ==
    IF IsNaN(amount) THEN NaNNum
    ELSE IF currency = <<"E","U","R">> THEN amount
    ELSE Num(RoundDiv(Val(amount) * 100, EurToUsd))

\* the DataFrame main() builds before it creates the specialised datasets:
\* preprocess_data, filter_not_needed_rows, the currency conversion
\* (rename_products renames one product that is not in the pool)
ConvertedRow(row) ==
    [src                  |-> row.src,
     date                 |-> row.date,
     product              |-> row.product,
     ISIN                 |-> row.ISIN,
     original_description |-> row.original_description,
     amount               |-> row.amount,
     amount_currency      |-> row.amount_currency,
     description          |-> row.description,
     category             |-> row.category,
     country              |-> row.country,
     amount_EUR           |-> ConvertToEUR(row.amount, row.amount_currency)]

PipelineGen(df) ==
    With(FilterNotNeededRows(PreprocessData(df)), LAMBDA f :
        SubSeq([i \in 1..Len(f) |-> ConvertedRow(f[i])], 1, Len(f)))

(***************************************************************************)
(* generate_datasets.py : create_df_buys, create_df_sells, share           *)
(* extraction, get_stock_price_finnhub, generate_current_stock_values      *)
(***************************************************************************)
\* the digits captured by the leftmost match of  verb + " " + (\d+)  in the
\* text (case-sensitive, exactly one blank), NaNNum (None) without a match
SharesDigitsAt(orig, pat, i) ==
    SubSeq(orig, i + Len(pat), RunEnd(orig, i + Len(pat), IsDigit))

ExtractSharesAfter(verb, orig) ==
    With(verb \o <<" ">>, LAMBDA pat :
    With({i \in 1..Len(orig) :
              /\ MatchAt(orig, pat, i)
              /\ Len(SharesDigitsAt(orig, pat, i)) > 0}, LAMBDA at :
        IF IsNaText(orig) \/ at = {} THEN NaNNum
        ELSE Num(ParseNat(SharesDigitsAt(orig, pat, Min(at))))))

\* extract_shares_from_buys_description: re.search(r"Compra (\d+)", ...)
extract_shares_from_buys_description(orig) == ExtractSharesAfter(<<"C","o","m","p","r","a">>, orig)

\* extract_shares_from_sells_description: re.search(r"Venta (\d+)", ...)
extract_shares_from_sells_description(orig) == ExtractSharesAfter(<<"V","e","n","t","a">>, orig)

\* is_valid and shares of every row of the pool, were it a buy
\* (is_valid is not computed for a null ISIN, where the lambda raises)
BuyColumns(id) ==
    With(RowPool[id], LAMBDA r :
        [contains |-> ~IsNaText(r.ISIN) /\ Contains(r.Descripcion, r.ISIN),
         shares   |-> extract_shares_from_buys_description(r.Descripcion)])
BuyColumnsTable == PoolTable(BuyColumns)

\* shares of every row of the pool, were it a sell
SellColumns(id) ==
    [shares |-> extract_shares_from_sells_description(RowPool[id].Descripcion)]
SellColumnsTable == PoolTable(SellColumns)

\* the lambda of create_df_buys on one row:
\*   row["ISIN"] in row["original_description"] and row["amount_EUR"] < 0
BuyIsValidGen(row) ==
    /\ BuyColumnsTable[row.src].contains
    /\ ~IsNaN(row.amount_EUR)
    /\ Val(row.amount_EUR) < 0

\* create_df_buys followed by main()'s shares column.  With a null ISIN in
\* a buy row the lambda raises TypeError (NaN in str): ok is FALSE
BuyRow(row) ==
    [src      |-> row.src,
     product  |-> row.product,
     ISIN     |-> row.ISIN,
     original_description |-> row.original_description,
     amount_EUR |-> row.amount_EUR,
     is_valid |-> BuyIsValidGen(row),
     shares   |-> BuyColumnsTable[row.src].shares]

CreateDfBuys(df) ==
    With(SelectSeq(df, LAMBDA row : row.category = "compra"), LAMBDA b :
        IF \E i \in 1..Len(b) : IsNaText(b[i].ISIN)
        THEN [ok |-> FALSE, rows |-> <<>>]
        ELSE [ok |-> TRUE,
              rows |-> SubSeq([i \in 1..Len(b) |-> BuyRow(b[i])], 1, Len(b))])

\* create_df_sells followed by main()'s shares column
SellRow(row) ==
    [src      |-> row.src,
     product  |-> row.product,
     ISIN     |-> row.ISIN,
     original_description |-> row.original_description,
     amount_EUR |-> row.amount_EUR,
     shares   |-> SellColumnsTable[row.src].shares]

CreateDfSells(df) ==
    With(SelectSeq(df, LAMBDA row : row.category = "venta"), LAMBDA s :
        SubSeq([i \in 1..Len(s) |-> SellRow(s[i])], 1, Len(s)))

\* row.get("shares", 0) or 0, as read from the shares column of a DataFrame:
\* a column of None only keeps its None (falsy, so 0); a column that mixes
\* numbers and None is a float column whose NaN is truthy and stays NaN.
\* column is the DataFrame the shares were extracted into (a selection of
\* its rows keeps the column's dtype)
SharesOr0(column, row) ==
    IF IsNaN(row.shares)
    THEN (IF \A j \in 1..Len(column) : IsNaN(column[j].shares) THEN Num(0) ELSE NaNNum)
    ELSE row.shares

\* float addition and subtraction with NaN
NumAdd(a, b) == IF IsNaN(a) \/ IsNaN(b) THEN NaNNum ELSE Num(Val(a) + Val(b))
NumSub(a, b) == IF IsNaN(a) \/ IsNaN(b) THEN NaNNum ELSE Num(Val(a) - Val(b))

\* the index of an ISIN in net_positions, 0 when it is not a key yet
KeyOf(p, isin) ==
    With({k \in 1..Len(p.isins) : p.isins[k] = isin}, LAMBDA at :
        IF at = {} THEN 0 ELSE Min(at))

\* one iteration of the loop over valid_buys:
\*   net_positions[isin]["net_shares"] += shares, the key created at 0
AddBuy(p, row, shares, k) ==
    IF k = 0
    THEN [isins |-> Append(p.isins, row.ISIN),
          net   |-> Append(p.net, NumAdd(Num(0), shares)),
          name  |-> Append(p.name, row.product)]
    ELSE [p EXCEPT !.net[k] = NumAdd(p.net[k], shares)]

\* one iteration of the loop over df_sells:
\*   if isin in net_positions: net_positions[isin]["net_shares"] -= shares
SubSell(p, shares, k) ==
    IF k = 0 THEN p ELSE [p EXCEPT !.net[k] = NumSub(p.net[k], shares)]

\* net_positions after the loop over the first n valid buys: the ISINs in
\* order of insertion and the net shares of each
RECURSIVE NetAfterBuys(_, _, _)
NetAfterBuys(df_buys, valid_buys, n) ==
    IF n = 0 THEN [isins |-> <<>>, net |-> <<>>, name |-> <<>>]
    ELSE With(NetAfterBuys(df_buys, valid_buys, n - 1), LAMBDA p :
             AddBuy(p, valid_buys[n], SharesOr0(df_buys, valid_buys[n]),
                    KeyOf(p, valid_buys[n].ISIN)))

\* net_positions after the loop over the first n sells
RECURSIVE NetAfterSells(_, _, _)
NetAfterSells(p0, df_sells, n) ==
    IF n = 0 THEN p0
    ELSE With(NetAfterSells(p0, df_sells, n - 1), LAMBDA p :
             SubSell(p, SharesOr0(df_sells, df_sells[n]), KeyOf(p, df_sells[n].ISIN)))

\* net_positions after both loops
NetPositions(df_buys, df_sells) ==
    With(SelectSeq(df_buys, LAMBDA r : r.is_valid), LAMBDA valid_buys :
        NetAfterSells(NetAfterBuys(df_buys, valid_buys, Len(valid_buys)),
                      df_sells, Len(df_sells)))

\* the entries of net_positions with net_shares > 0, in insertion order
PositivePositions(p) ==
    With(SelectSeq([k \in 1..Len(p.isins) |-> k],
                   LAMBDA k : ~IsNaN(p.net[k]) /\ Val(p.net[k]) > 0), LAMBDA idx :
        SubSeq([i \in 1..Len(idx) |->
                   [isin |-> p.isins[idx[i]], net_shares |-> Val(p.net[idx[i]]),
                    company_name |-> p.name[idx[i]]]], 1, Len(idx)))

\* held_stocks: the positions with net_shares > 0
HeldStocks(df_buys, df_sells) ==
    With(NetPositions(df_buys, df_sells), PositivePositions)

\* what the three Finnhub requests of get_stock_price_finnhub answer for one
\* ISIN: a request raises (HTTP error, timeout), the search finds nothing,
\* or a ticker is found and the quote carries "c" (0 for an unknown price)
GenResponses ==
    { [outcome |-> "http_error", ticker |-> NaNText, name |-> <<>>, c |-> 0],
      [outcome |-> "no_result",  ticker |-> NaNText, name |-> <<>>, c |-> 0],
      [outcome |-> "found", ticker |-> <<"T","I","C","K">>, name |-> <<>>, c |-> 0],
      [outcome |-> "found", ticker |-> <<"T","I","C","K">>, name |-> <<"P","r","o","f","i","l","e"," ","N","a","m","e">>,
       c |-> QuotePrice] }

\* get_stock_price_finnhub: <<>> for None, else the dict
get_stock_price_finnhub(resp) ==
    IF resp.outcome # "found" \/ resp.c = 0 THEN <<>>
    ELSE << [symbol |-> resp.ticker, company_name |-> resp.name,
             price |-> resp.c, currency |-> <<"U","S","D">>, source |-> "finnhub"] >>

\* one entry of stock_values (fetch_date and fetch_timestamp are left out)
StockValueRow(pos, resp) ==
    With(get_stock_price_finnhub(resp), LAMBDA pd :
        IF pd # <<>>
        THEN [isin           |-> pos.isin,
              \* price_data["company_name"] or position_data["company_name"]
              company_name   |-> IF Len(pd[1].company_name) > 0
                                 THEN pd[1].company_name ELSE pos.company_name,
              symbol         |-> pd[1].symbol,
              current_price  |-> Num(pd[1].price),
              currency       |-> pd[1].currency,
              shares_held    |-> pos.net_shares,
              position_value |-> Num(pos.net_shares * pd[1].price),
              source         |-> pd[1].source]
        ELSE [isin           |-> pos.isin,
              company_name   |-> pos.company_name,
              symbol         |-> NaNText,
              current_price  |-> NaNNum,
              currency       |-> NaNText,
              shares_held    |-> pos.net_shares,
              position_value |-> NaNNum,
              source         |-> "failed"])

\* the stock_values list generate_current_stock_values builds when it fetches
StockValues(df_buys, df_sells, gquote) ==
    With(HeldStocks(df_buys, df_sells), LAMBDA held :
        SubSeq([i \in 1..Len(held) |-> StockValueRow(held[i], gquote[held[i].isin])],
               1, Len(held)))

\* the answers Finnhub may give to the lookups of one run
GenQuoteChoices(df_buys, df_sells) ==
    With(HeldStocks(df_buys, df_sells), LAMBDA held :
        [{held[i].isin : i \in 1..Len(held)} -> GenResponses])

(***************************************************************************)
(* generate_datasets.py : calculate_current_portfolio_value and the file   *)
(* it reads                                                                *)
(***************************************************************************)
\* successful_stocks["position_value"].fillna(0).sum(), in cents of USD
TotalValueUsd(df_stocks) ==
    SumSeq([i \in 1..Len(df_stocks) |->
              IF df_stocks[i].source # "failed" /\ ~IsNaN(df_stocks[i].position_value)
              THEN Val(df_stocks[i].position_value) ELSE 0])

\* calculate_current_portfolio_value: 0 when the file does not exist, else
\* round(total_value_usd * (1 / latest_eur_to_usd), 2), in cents
calculate_current_portfolio_value(stock_values_file) ==
    IF stock_values_file = <<>>
    THEN [current_portfolio_value_eur |-> 0]
    ELSE [current_portfolio_value_eur |->
             RoundDiv(TotalValueUsd(stock_values_file) * 100, EurToUsd)]

\* current_stock_values.csv after generate_current_stock_values has fetched:
\* written only if stock_values: (the list is not empty)
WrittenStockValues(stock_values_file, stock_values) ==
    IF Len(stock_values) > 0 THEN stock_values ELSE stock_values_file

(***************************************************************************)
(* generate_datasets.py : create_df_dividends, verify_dividends,           *)
(* generate_portfolio_summary's total_dividends                            *)
(***************************************************************************)
\* create_df_dividends: the rows of category "dividendo"
CreateDfDividends(df) == SelectSeq(df, LAMBDA row : row.category = "dividendo")

\* the rows of one (date, product) group of df.groupby(["date", "product"]);
\* a row whose product is NaN is in no group (dropna)
DividendGroup(d, i) ==
    SelectSeq(d, LAMBDA row : row.date = d[i].date /\ row.product = d[i].product)

\* verificar_grupo sets grupo["status"] = "verified"
verificar_grupo(grupo) ==
    With(grupo[1].country, LAMBDA country :
    With(Contains(Lower(grupo[1].product), <<"a","l","i","b","a","b","a">>), LAMBDA alibaba :
    With({grupo[k].description : k \in 1..Len(grupo)}, LAMBDA descripciones :
        IF country = <<"U","S">> /\ ~alibaba
        THEN /\ Len(grupo) = 2
             /\ <<"d","i","v","i","d","e","n","d","o">> \in descripciones
             /\ <<"r","e","t","e","n","c","i","o'","n"," ","d","e","l"," ","d","i","v","i","d","e","n","d","o">> \in descripciones
        ELSE IF country = <<"L","R">> \/ alibaba
        THEN Len(grupo) = 1
        ELSE FALSE)))

\* one row of the DataFrame verify_dividends returns
DividendRow(row, status) ==
    [src         |-> row.src,
     date        |-> row.date,
     product     |-> row.product,
     description |-> row.description,
     country     |-> row.country,
     amount_EUR  |-> row.amount_EUR,
     status      |-> status]

\* verify_dividends.  groupby(...).apply(verificar_grupo) returns the rows
\* of the groups, so a row without product is not in it; the column
\* "status" exists only when some group was verified, and without it
\* df["status"] raises KeyError (ok is FALSE)
VerifyDividends(d) ==
    With(SelectSeq([i \in 1..Len(d) |-> i], LAMBDA i : ~IsNaText(d[i].product)),
         LAMBDA grouped :
    With([k \in 1..Len(grouped) |-> verificar_grupo(DividendGroup(d, grouped[k]))],
         LAMBDA verified :
        IF \A k \in 1..Len(grouped) : ~verified[k]
        THEN [ok |-> FALSE, rows |-> <<>>]
        ELSE [ok |-> TRUE,
              rows |-> SubSeq([k \in 1..Len(grouped) |->
                                  DividendRow(d[grouped[k]],
                                      IF verified[k] THEN "verified"
                                      ELSE "unverified")],
                              1, Len(grouped))]))

\* the sum of the column amount_EUR, NaN skipped
RECURSIVE SumAmountEUR(_, _)
SumAmountEUR(rows, n) ==
    IF n = 0 THEN 0
    ELSE SumAmountEUR(rows, n - 1)
         + (IF IsNaN(rows[n].amount_EUR) THEN 0 ELSE Val(rows[n].amount_EUR))

\* generate_portfolio_summary: total_dividends = df_dividends["amount_EUR"].sum()
TotalDividends(df_dividends) == SumAmountEUR(df_dividends, Len(df_dividends))

(***************************************************************************)
(* generate_datasets.py : extract_price_from_buys_description,             *)
(* extract_price_from_sells_description                                    *)
(***************************************************************************)
\* character class [\d,\.]
IsPriceChar(c) == IsDigit(c) \/ c = "," \/ c = "."

\* the group of the pattern  @([\d,\.]+)\s+(?:USD|EUR|GBP)  when it matches at
\* i: the at sign, the longest run of the class, at least one blank, a
\* currency code
PriceMatchAt(s, i) ==
    IF i > Len(s) \/ s[i] # "@" THEN <<>>
    ELSE LET e == RunEnd(s, i + 1, IsPriceChar)
             f == RunEnd(s, e + 1, IsSpace)
         IN  IF e < i + 1 \/ f < e + 1 THEN <<>>
             ELSE IF \E k \in 1..Len(CurrencyCodes) : MatchAt(s, CurrencyCodes[k], f + 1)
             THEN << SubSeq(s, i + 1, e) >>
             ELSE <<>>

\* str.replace(old, new) for one character, new being a character or ""
ReplaceChar(s, old, new) ==
    Flatten([i \in 1..Len(s) |-> IF s[i] = old THEN new ELSE <<s[i]>>])

\* only the comma is replaced
CommaToPoint(price_str) == ReplaceChar(price_str, ",", <<".">>)

\* the separators of price_str put right:
\*   if "." in price_str and "," in price_str:
\*       price_str.replace(".", "").replace(",", ".")
\*   else: price_str.replace(",", ".")
NormalizePrice(price_str) ==
    IF (\E i \in 1..Len(price_str) : price_str[i] = ".")
       /\ (\E i \in 1..Len(price_str) : price_str[i] = ",")
    THEN ReplaceChar(ReplaceChar(price_str, ".", <<>>), ",", <<".">>)
    ELSE ReplaceChar(price_str, ",", <<".">>)

\* 10 to the power of k
RECURSIVE Pow10(_)
Pow10(k) == IF k = 0 THEN 1 ELSE 10 * Pow10(k - 1)

\* float(text) for a text of digits and points: the number as a fraction,
\* NaN for the ValueError (more than one point, no digit at all)
ParseFloat(text) ==
    LET points == {i \in 1..Len(text) : text[i] = "."}
    IN  IF Cardinality(points) > 1 \/ Len(text) = Cardinality(points)
        THEN NaNNum
        ELSE IF points = {}
        THEN Num([num |-> ParseNat(text), den |-> 1])
        ELSE LET p == Min(points)
                 whole == SubSeq(text, 1, p - 1)
                 frac  == SubSeq(text, p + 1, Len(text))
             IN  Num([num |-> ParseNat(whole) * Pow10(Len(frac)) + ParseNat(frac),
                      den |-> Pow10(Len(frac))])

\* the body shared by the two extractors: None (NaN) for a null description,
\* for no match, and for the exception of float() that the bare except
\* swallows
ExtractPrice(description) ==
    IF IsNaText(description) THEN NaNNum
    ELSE LET at == {i \in 1..Len(description) : PriceMatchAt(description, i) # <<>>}
         IN  IF at = {} THEN NaNNum
             ELSE ParseFloat(NormalizePrice(PriceMatchAt(description, Min(at))[1]))

extract_price_from_buys_description(description) == ExtractPrice(description)

extract_price_from_sells_description(description) == ExtractPrice(description)

(***************************************************************************)
(* State.                                                                  *)
(*   csv           the CSV being put together and then processed           *)
(*   phase         how far the pipeline has come on it                     *)
(*   df            DeGiroProcessorPG.load_degiro_data's DataFrame          *)
(*   transactions  categorize_transactions' dict of DataFrames             *)
(*   holdings      calculate_holdings' DataFrame                           *)
(*   quote         what the quote service answered, per symbol             *)
(*   lookups       the symbols get_current_prices requested, in order      *)
(*   gdf           generate_datasets.main's df after the conversion        *)
(*   df_buys, df_sells   main's specialised datasets                       *)
(*   df_dividends  verify_dividends' DataFrame                               *)
(*   stock_values  generate_current_stock_values' list                     *)
(*   gquote        what Finnhub answered, per ISIN                         *)
(*   output        the files of the directory output that one run of main  *)
(*                 reads and writes: current_stock_values.csv (<<>> while  *)
(*                 it does not exist) and portfolio_summary.json           *)
(*   price         a description given to the two price extractors and     *)
(*                 what each returned for it                               *)
(*                                                                         *)
(*   tbl_users, tbl_raw, tbl_transactions, tbl_holdings                    *)
(*                 the rows of the tables users, degiro_raw_data,          *)
(*                 transactions and holdings, in order of insertion        *)
(*   req           the calls of process_and_store: where each one is and   *)
(*                 its locals                                              *)
(*   fix           the run of fix_holdings_for_all_users                   *)
(*   http          per call of the endpoint upload_degiro_data, the name   *)
(*                 of the uploaded file and the status of the response     *)
(*                 (0 while there is none)                                 *)
(*   latest        per user, what the last processing that ran to its end  *)
(*                 computed (kept for the properties only)                 *)
(***************************************************************************)
VARIABLES csv, phase, df, transactions, holdings, quote, lookups,
          gdf, df_buys, df_sells, df_dividends, stock_values, gquote, output, price,
          tbl_users, tbl_raw, tbl_transactions, tbl_holdings, req, fix, latest,
          http

pgVars  == <<df, transactions, holdings, quote, lookups>>
genVars == <<gdf, df_buys, df_sells, df_dividends, stock_values, gquote>>
reconVars == <<csv, phase, pgVars, genVars, output, price>>
tables  == <<tbl_users, tbl_raw, tbl_transactions, tbl_holdings>>
storeVars == <<tables, req, fix, latest, http>>
vars    == <<csv, phase, df, transactions, holdings, quote, lookups,
             gdf, df_buys, df_sells, df_dividends, stock_values, gquote, output, price,
             tbl_users, tbl_raw, tbl_transactions, tbl_holdings, req, fix, latest,
             http>>

\* longest CSV considered
MaxRows == 3

\* longest price token built from PriceAlphabet
MaxTokenLen == 3

NoTransactions == [c \in Range(Categories) |-> <<>>]
NoQuote == [s \in {} |-> 0]

\* no description given yet, no extractor called
NoPrice == [description |-> NaNText, buys |-> <<>>, sells |-> <<>>]
\* the directory output before the first run
NoOutput == [current_stock_values |-> <<>>, portfolio_summary |-> <<>>]

(***************************************************************************)
(* database_models.py : the rows the INSERT statements write               *)
(***************************************************************************)
\* safe_str(value): "" for a null
safe_str(value) == IF IsNaText(value) THEN <<>> ELSE value

\* trans_type.rstrip("s")
RStripS(trans_type) ==
    CASE trans_type = "buys"      -> "buy"
      [] trans_type = "sells"     -> "sell"
      [] trans_type = "dividends" -> "dividend"
      [] trans_type = "deposits"  -> "deposit"
      [] trans_type = "fees"      -> "fee"

\* the row store_transactions inserts for one row of transactions_df (id and
\* created_at, which the database fills in, are left out)
StoredTransaction(user_id, row, transaction_type) ==
    [user_id              |-> user_id,
     date                 |-> row.date,
     product              |-> safe_str(row.product),
     isin                 |-> safe_str(row.ISIN),
     original_description |-> safe_str(row.original_description),
     description          |-> safe_str(row.description),
     category             |-> row.category,
     \* row.get("country"): the DataFrame has no such column
     country              |-> <<>>,
     amount_eur           |-> IF IsNaN(row.amount_EUR) THEN 0 ELSE Val(row.amount_EUR),
     is_valid             |-> row.is_valid,
     shares               |-> row.shares,
     price                |-> IF IsNaN(row.price) THEN ZeroPrice ELSE Val(row.price),
     transaction_type     |-> transaction_type]

\* the row store_holdings inserts for one row of holdings_df (id,
\* fetch_date, fetch_timestamp and last_updated are left out)
StoredHolding(user_id, row) ==
    [user_id        |-> user_id,
     isin           |-> safe_str(row.isin),
     company_name   |-> safe_str(row.company_name),
     symbol         |-> safe_str(row.symbol),
     current_price  |-> row.current_price,
     currency       |-> safe_str(row.currency),
     shares_held    |-> row.shares_held,
     position_value |-> row.position_value,
     source         |-> row.source]

\* store_transactions without its DELETE: the INSERTs append to what is there
KeepUserTransactions(tbl, user_id, transaction_type) == tbl

\* a table without the rows the statement keeps out
\* DELETE FROM transactions WHERE user_id = $1 AND transaction_type = $2
DeleteUserTransactions(tbl, user_id, transaction_type) ==
    SelectSeq(tbl, LAMBDA t : ~(t.user_id = user_id
                                /\ t.transaction_type = transaction_type))

\* DELETE FROM holdings, without the WHERE clause
DeleteAllHoldings(tbl, user_id) == <<>>

\* DELETE FROM holdings WHERE user_id = $1
DeleteUserHoldings(tbl, user_id) ==
    SelectSeq(tbl, LAMBDA h : h.user_id # user_id)

\* UNIQUE(user_id, isin) of holdings lets the row in
HoldingIsUnique(tbl, h) ==
    \A i \in 1..Len(tbl) : ~(tbl[i].user_id = h.user_id /\ tbl[i].isin = h.isin)

\* SELECT * FROM transactions WHERE user_id = $1 [AND transaction_type = $2]
UserTransactions(tbl, user_id) == SelectSeq(tbl, LAMBDA t : t.user_id = user_id)
UserTransactionsOfType(tbl, user_id, transaction_type) ==
    SelectSeq(tbl, LAMBDA t : t.user_id = user_id
                              /\ t.transaction_type = transaction_type)

\* SELECT * FROM holdings WHERE user_id = $1
UserHoldings(tbl, user_id) == SelectSeq(tbl, LAMBDA h : h.user_id = user_id)

\* SELECT * FROM degiro_raw_data WHERE user_id = $1
UserRawData(tbl, user_id) == SelectSeq(tbl, LAMBDA d : d.user_id = user_id)

(***************************************************************************)
(* degiro_processor_pg.py : process_and_store, as a coroutine that yields  *)
(* at every database statement it awaits.                                  *)
(***************************************************************************)
\* the users that upload
UserIds == {"u1", "u2"}

\* the calls of process_and_store, in order of arrival
Requests == <<"r1", "r2">>

\* the exports that are uploaded: one buy; a buy and the sale of all of it;
\* a dividend only; buys of two ISINs
StoreCsvs == { <<1>>, <<1, 3>>, <<5>>, <<1, 6>> }

\* the answers of the quote service considered for an upload
StoreResponses ==
    { [outcome |-> "exception",  c |-> NaNNum],
      [outcome |-> "status_200", c |-> Num(QuotePrice)] }

StoreQuoteChoices(trans) ==
    [Range(QueriedSymbols(HoldingSymbols(trans))) -> StoreResponses]

NoProcessing == [ran |-> FALSE, transactions |-> NoTransactions, holdings_df |-> <<>>]

IdleRequest ==
    [pc |-> "idle", user_id |-> "", csv_content |-> <<>>, quote |-> NoQuote,
     transactions |-> NoTransactions, holdings_df |-> <<>>,
     trans_type |-> 0, row |-> 0,
     before |-> [transactions |-> <<>>, holdings |-> <<>>],
     after  |-> [transactions |-> <<>>, holdings |-> <<>>],
     raised_in |-> ""]

\* the endpoint was not called
NoResponse == [filename |-> <<>>, status |-> 0]

IdleFix ==
    [pc |-> "idle", users |-> <<>>, holdings_df |-> <<>>, row |-> 0]

\* the statements at which a coroutine is suspended
StatementPcs ==
    {"create_or_get_user", "insert_user", "store_raw_data",
     "delete_transactions", "insert_transaction",
     "delete_holdings", "insert_holding"}

\* the index of the first category from k on whose DataFrame is not empty
\* (for trans_type, trans_df in transactions.items(): if not trans_df.empty),
\* 0 when there is none
NextCategory(trans, k) ==
    LET S == {j \in k..Len(Categories) : Len(trans[Categories[j]]) > 0}
    IN  IF S = {} THEN 0 ELSE Min(S)

\* where process_and_store goes on after the categories before k are stored
StoreFrom(r, k) ==
    LET j == NextCategory(r.transactions, k)
    IN  IF j # 0
        THEN [r EXCEPT !.pc = "delete_transactions", !.trans_type = j, !.row = 0]
        ELSE IF Len(r.holdings_df) > 0      \* if not holdings_df.empty
        THEN [r EXCEPT !.pc = "delete_holdings", !.trans_type = 0, !.row = 0]
        ELSE [r EXCEPT !.pc = "done", !.trans_type = 0, !.row = 0]

Init ==
    /\ csv = <<>>
    /\ phase = "input"
    /\ df = <<>>
    /\ transactions = NoTransactions
    /\ holdings = <<>>
    /\ quote = NoQuote
    /\ lookups = <<>>
    /\ gdf = <<>>
    /\ df_buys = <<>>
    /\ df_sells = <<>>
    /\ df_dividends = <<>>
    /\ stock_values = <<>>
    /\ gquote = NoQuote
    /\ output = NoOutput
    /\ price = NoPrice
    /\ tbl_users = <<>>
    /\ tbl_raw = <<>>
    /\ tbl_transactions = <<>>
    /\ tbl_holdings = <<>>
    /\ req = [r \in Range(Requests) |-> IdleRequest]
    /\ fix = IdleFix
    /\ latest = [u \in UserIds |-> NoProcessing]
    /\ http = [r \in Range(Requests) |-> NoResponse]


\* one more line of the export
AppendRow(id) ==
    /\ phase = "input"
    /\ Len(csv) < MaxRows
    /\ csv' = Append(csv, id)
    /\ UNCHANGED <<phase, pgVars, genVars, storeVars, output, price>>

\* degiro_processor_pg.py: df = self.load_degiro_data(csv_content)
LoadPG ==
    /\ phase = "input"
    /\ \E r \in {LoadDegiroDataPG(csv)} :
           /\ phase' = IF r.ok THEN "pg_loaded" ELSE "pg_load_raised"
           /\ df' = r.df
    /\ UNCHANGED <<csv, transactions, holdings, quote, lookups, genVars, storeVars, output, price>>

\* transactions = self.categorize_transactions(df)
CategorizePG ==
    /\ phase = "pg_loaded"
    /\ transactions' = CategorizeTransactions(df)
    /\ phase' = "pg_categorized"
    /\ UNCHANGED <<csv, df, holdings, quote, lookups, genVars, storeVars, output, price>>

\* holdings_df = self.calculate_holdings(transactions)
CalculateHoldingsPG ==
    /\ phase = "pg_categorized"
    /\ \E q \in QuoteChoices(transactions) :
        /\ quote' = q
        /\ holdings' = CalculateHoldings(transactions, q)
        /\ lookups' = LookupsOf(transactions)
    /\ phase' = "pg_reconciled"
    /\ UNCHANGED <<csv, df, transactions, genVars, storeVars, output, price>>

\* generate_datasets.main: load_degiro_data ... apply_currency_conversion_rates
LoadGen ==
    /\ phase = "input"
    /\ \E r \in {LoadDegiroDataGen(csv)} :
           /\ phase' = IF r.ok THEN "gen_loaded" ELSE "gen_load_raised"
           /\ gdf' = IF r.ok THEN PipelineGen(r.df) ELSE <<>>
    /\ UNCHANGED <<csv, pgVars, df_buys, df_sells, df_dividends, stock_values, gquote, storeVars, output, price>>

\* main: df_buys = create_df_buys(df) ... df_sells["shares"] = ...
CreateDatasetsGen ==
    /\ phase = "gen_loaded"
    /\ \E b \in {CreateDfBuys(gdf)} :
           /\ phase' = IF b.ok THEN "gen_datasets" ELSE "gen_buys_raised"
           /\ df_buys' = b.rows
           /\ df_sells' = IF b.ok THEN CreateDfSells(gdf) ELSE <<>>
    /\ UNCHANGED <<csv, pgVars, gdf, df_dividends, stock_values, gquote, storeVars, output, price>>

\* main: df_dividends = verify_dividends(create_df_dividends(df))
VerifyDividendsGen ==
    /\ phase = "gen_datasets"
    /\ \E v \in {VerifyDividends(CreateDfDividends(gdf))} :
           /\ phase' = IF v.ok THEN "gen_dividends" ELSE "gen_dividends_raised"
           /\ df_dividends' = v.rows
    /\ UNCHANGED <<csv, pgVars, gdf, df_buys, df_sells, stock_values, gquote, storeVars, output, price>>

\* main from the portfolio summary on: calculate_current_portfolio_value reads
\* current_stock_values.csv, portfolio_summary.json is written, and then
\* generate_current_stock_values returns early: today's file is reused
\* (not force_fetch) or api_config.json holds no key
StockValuesSkipped ==
    /\ phase = "gen_dividends"
    /\ phase' = "gen_skipped"
    /\ output' = [output EXCEPT !.portfolio_summary =
                     << calculate_current_portfolio_value(output.current_stock_values) >>]
    /\ UNCHANGED <<csv, pgVars, genVars, storeVars, price>>

\* main from the portfolio summary on: calculate_current_portfolio_value reads
\* current_stock_values.csv, portfolio_summary.json is written, and then
\* generate_current_stock_values fetches the prices and writes the file
StockValuesFetched ==
    /\ phase = "gen_dividends"
    /\ \E q \in GenQuoteChoices(df_buys, df_sells) :
        /\ gquote' = q
        /\ stock_values' = StockValues(df_buys, df_sells, q)
        /\ output' = [portfolio_summary |->
                         << calculate_current_portfolio_value(output.current_stock_values) >>,
                      current_stock_values |->
                         WrittenStockValues(output.current_stock_values,
                                            StockValues(df_buys, df_sells, q))]
    /\ phase' = "gen_reconciled"
    /\ UNCHANGED <<csv, pgVars, gdf, df_buys, df_sells, df_dividends, storeVars, price>>

\* the pool rows the reconciliation CSVs are made of
ReconRows == (1..11) \cup {18}

NextRecon ==
    \/ \E id \in ReconRows : AppendRow(id)
    \/ LoadPG
    \/ CategorizePG
    \/ CalculateHoldingsPG
    \/ LoadGen
    \/ CreateDatasetsGen
    \/ VerifyDividendsGen
    \/ StockValuesSkipped
    \/ StockValuesFetched

\* the reconciliation pipelines on every CSV of up to MaxRows pool rows
SpecRecon == Init /\ [][NextRecon]_vars

\* the pool rows the ledger CSVs are made of: the plain buy, the buy whose
\* amount does not parse, the dividend, and the rows of the corporate
\* action, the fee, the buy without a share count, the second product name,
\* the malformed date, the GBP amount and the dividend without a product
LedgerRows == {1, 4, 5, 12, 13, 14, 15, 16, 17, 19}

\* a dividend and its withholding, the two lines DeGiro books for one payment
PaidDividend == <<5, 18>>

\* the export opens with a paid dividend
OpensWithPayment(rows) ==
    /\ Len(rows) >= Len(PaidDividend)
    /\ SubSeq(rows, 1, Len(PaidDividend)) = PaidDividend

\* the first two lines of the export are a paid dividend
AppendPayment ==
    /\ phase = "input"
    /\ csv = <<>>
    /\ csv' = PaidDividend
    /\ UNCHANGED <<phase, pgVars, genVars, storeVars, output, price>>

\* one more line of the export, up to MaxRows of them after the payment it
\* may open with
AppendLedgerRow(id) ==
    /\ phase = "input"
    /\ Len(csv) < MaxRows + (IF OpensWithPayment(csv) THEN Len(PaidDividend) ELSE 0)
    /\ csv' = Append(csv, id)
    /\ UNCHANGED <<phase, pgVars, genVars, storeVars, output, price>>

NextLedger ==
    \/ AppendPayment
    \/ \E id \in LedgerRows : AppendLedgerRow(id)
    \/ LoadPG
    \/ CategorizePG
    \/ CalculateHoldingsPG
    \/ LoadGen
    \/ CreateDatasetsGen
    \/ VerifyDividendsGen
    \/ StockValuesSkipped
    \/ StockValuesFetched

\* both pipelines on the ledger CSVs
SpecLedger == Init /\ [][NextLedger]_vars

\* the pool rows the CSVs of the price lookups are made of: buys of three
\* ISINs, two of them under products that begin alike, and the sale of all
\* of the first
LookupRows == {1, 3, 6, 20}

NextLookup ==
    \/ \E id \in LookupRows : AppendRow(id)
    \/ LoadPG
    \/ CategorizePG
    \/ CalculateHoldingsPG

\* DeGiroProcessorPG's reconciliation and its price lookups
SpecLookup == Init /\ [][NextLookup]_vars

(***************************************************************************)
(* The price extractors on their own: a description is given, and          *)
(* create_df_buys / create_df_sells apply their extractor to it.           *)
(***************************************************************************)
PriceAlphabet == {"1", "8", ".", ","}

\* every token of 1..MaxTokenLen characters, and the long ones of DeGiro's
\* descriptions
PriceTokens ==
    UNION {[1..n -> PriceAlphabet] : n \in 1..MaxTokenLen}
    \cup { <<"1",".","2","0","8",",","8","8">>, <<"6","1",",","8","2">>,
           <<"1","5","0",".","2","5">>, <<"1",".","2","0","8",".","8","8","8",",","5">> }

PriceDescription(token, currency) ==
    <<"C","o","m","p","r","a"," ","1"," ","X","@">> \o token \o <<" ">> \o currency

PriceDescriptions ==
    {PriceDescription(t, <<"U","S","D">>) : t \in PriceTokens}
    \cup { NaNText,
           <<"C","o","m","p","r","a"," ","1"," ","X">>,
           PriceDescription(<<"6","1",",","8","2">>, <<"G","B","P">>),
           PriceDescription(<<"6","1",",","8","2">>, <<"C","H","F">>),
           <<"@","1",",","5","U","S","D">> }

GiveDescription(description) ==
    /\ price' = [description |-> description, buys |-> <<>>, sells |-> <<>>]
    /\ UNCHANGED <<csv, phase, pgVars, genVars, output, storeVars>>

ExtractPriceFromBuys ==
    /\ price.buys = <<>>
    /\ price' = [price EXCEPT !.buys = << extract_price_from_buys_description(price.description) >>]
    /\ UNCHANGED <<csv, phase, pgVars, genVars, output, storeVars>>

ExtractPriceFromSells ==
    /\ price.sells = <<>>
    /\ price' = [price EXCEPT !.sells = << extract_price_from_sells_description(price.description) >>]
    /\ UNCHANGED <<csv, phase, pgVars, genVars, output, storeVars>>

NextPrice ==
    \/ \E description \in PriceDescriptions : GiveDescription(description)
    \/ ExtractPriceFromBuys
    \/ ExtractPriceFromSells

SpecPrice == Init /\ [][NextPrice]_vars

(***************************************************************************)
(* generate_datasets.main up to create_df_buys, on exports of buys with    *)
(* and without an ISIN                                                     *)
(***************************************************************************)
\* the plain buy, the buy whose amount does not parse, the dividend, the buy
\* without a share count and the buy whose ISIN cell is empty
BuyRows == {1, 4, 5, 14, 24}

NextBuys ==
    \/ \E id \in BuyRows : AppendRow(id)
    \/ LoadGen
    \/ CreateDatasetsGen

SpecBuys == Init /\ [][NextBuys]_vars

(***************************************************************************)
(* Actions of the store.                                                   *)
(***************************************************************************)
\* no coroutine is between two of its statements
Quiet ==
    /\ \A r \in Range(Requests) : req[r].pc \in {"idle", "done", "raised"}
    /\ fix.pc \in {"idle", "done", "raised"}

\* r is the next call to arrive
NextToArrive(r) ==
    /\ req[r].pc = "idle"
    /\ \A k \in 1..Len(Requests) :
          Requests[k] = r => \A j \in 1..(k - 1) : req[Requests[j]].pc # "idle"

\* the user's rows as a reader finds them
RowsOf(user_id) ==
    [transactions |-> UserTransactions(tbl_transactions, user_id),
     holdings     |-> UserHoldings(tbl_holdings, user_id)]

\* what a call that ends records
Finish(r, rec, user_rows) ==
    IF rec.pc = "done" THEN [rec EXCEPT !.after = user_rows]
    ELSE rec

\* process_and_store up to its first await: load, categorize, calculate
\* holdings; an exception leaves with nothing written
ProcessToFirstAwait(r, user_id, csv_content) ==
    /\ NextToArrive(r)
    /\ LET ld == LoadDegiroDataPG(csv_content)
           tr == CategorizeTransactions(ld.df)
       IN  IF ~ld.ok
           THEN /\ req' = [req EXCEPT ![r] =
                      [IdleRequest EXCEPT !.pc = "raised", !.user_id = user_id,
                                          !.csv_content = csv_content,
                                          !.before = RowsOf(user_id),
                                          !.raised_in = "load_degiro_data"]]
           ELSE \E q \in StoreQuoteChoices(tr) :
                   req' = [req EXCEPT ![r] =
                      [IdleRequest EXCEPT !.pc = "create_or_get_user",
                                          !.user_id = user_id,
                                          !.csv_content = csv_content,
                                          !.quote = q,
                                          !.transactions = tr,
                                          !.holdings_df = CalculateHoldings(tr, q),
                                          !.before = RowsOf(user_id)]]

\* a call of process_and_store arrives
StartUpload(r, user_id, csv_content) ==
    /\ ProcessToFirstAwait(r, user_id, csv_content)
    /\ UNCHANGED <<reconVars, http, tables, fix, latest>>

\* create_or_get_user: SELECT * FROM users WHERE user_id = $1
SelectUser(r) ==
    /\ req[r].pc = "create_or_get_user"
    /\ req' = [req EXCEPT ![r].pc =
                  IF req[r].user_id \in Range(tbl_users)
                  THEN "store_raw_data" ELSE "insert_user"]
    /\ UNCHANGED <<reconVars, http, tables, fix, latest>>

\* create_or_get_user: INSERT INTO users (user_id); users.user_id is UNIQUE
InsertUser(r) ==
    /\ req[r].pc = "insert_user"
    /\ IF req[r].user_id \in Range(tbl_users)
       THEN /\ req' = [req EXCEPT ![r].pc = "raised",
                                  ![r].raised_in = "create_or_get_user"]
            /\ UNCHANGED tbl_users
       ELSE /\ tbl_users' = Append(tbl_users, req[r].user_id)
            /\ req' = [req EXCEPT ![r].pc = "store_raw_data"]
    /\ UNCHANGED <<reconVars, http, tbl_raw, tbl_transactions, tbl_holdings, fix, latest>>

\* store_raw_data: INSERT INTO degiro_raw_data
StoreRawData(r) ==
    /\ req[r].pc = "store_raw_data"
    /\ tbl_raw' = Append(tbl_raw, [user_id   |-> req[r].user_id,
                                   file_data |-> req[r].csv_content])
    /\ LET rec == StoreFrom(req[r], 1)
       IN  /\ req' = [req EXCEPT ![r] = Finish(r, rec, RowsOf(rec.user_id))]
           /\ latest' = IF rec.pc = "done"
                        THEN [latest EXCEPT ![rec.user_id] =
                                [ran |-> TRUE, transactions |-> rec.transactions,
                                 holdings_df |-> rec.holdings_df]]
                        ELSE latest
    /\ UNCHANGED <<reconVars, http, tbl_users, tbl_transactions, tbl_holdings, fix>>

\* store_transactions: DELETE FROM transactions WHERE user_id AND type
DeleteTransactions(r) ==
    /\ req[r].pc = "delete_transactions"
    /\ tbl_transactions' =
          DeleteUserTransactions(tbl_transactions, req[r].user_id,
                                 RStripS(Categories[req[r].trans_type]))
    /\ req' = [req EXCEPT ![r].pc = "insert_transaction", ![r].row = 1]
    /\ UNCHANGED <<reconVars, http, tbl_users, tbl_raw, tbl_holdings, fix, latest>>

\* store_transactions: one INSERT INTO transactions; transactions.date is
\* NOT NULL
InsertTransaction(r) ==
    /\ req[r].pc = "insert_transaction"
    /\ LET me   == req[r]
           c    == Categories[me.trans_type]
           rows == me.transactions[c]
           row  == rows[me.row]
       IN  IF row.date = <<>>
           THEN /\ req' = [req EXCEPT ![r].pc = "raised",
                                      ![r].raised_in = "store_transactions"]
                /\ UNCHANGED <<tbl_transactions, latest>>
           ELSE /\ tbl_transactions' =
                      Append(tbl_transactions,
                             StoredTransaction(me.user_id, row, RStripS(c)))
                /\ LET rec == IF me.row < Len(rows)
                              THEN [me EXCEPT !.row = me.row + 1]
                              ELSE StoreFrom(me, me.trans_type + 1)
                       now == [transactions |->
                                  UserTransactions(tbl_transactions', me.user_id),
                               holdings |-> UserHoldings(tbl_holdings, me.user_id)]
                   IN  /\ req' = [req EXCEPT ![r] = Finish(r, rec, now)]
                       /\ latest' = IF rec.pc = "done"
                                    THEN [latest EXCEPT ![me.user_id] =
                                            [ran |-> TRUE,
                                             transactions |-> me.transactions,
                                             holdings_df |-> me.holdings_df]]
                                    ELSE latest
    /\ UNCHANGED <<reconVars, http, tbl_users, tbl_raw, tbl_holdings, fix>>

\* store_holdings: DELETE FROM holdings WHERE user_id
DeleteHoldings(r) ==
    /\ req[r].pc = "delete_holdings"
    /\ tbl_holdings' = DeleteUserHoldings(tbl_holdings, req[r].user_id)
    /\ req' = [req EXCEPT ![r].pc = "insert_holding", ![r].row = 1]
    /\ UNCHANGED <<reconVars, http, tbl_users, tbl_raw, tbl_transactions, fix, latest>>

\* store_holdings: one INSERT INTO holdings; UNIQUE(user_id, isin)
InsertHolding(r) ==
    /\ req[r].pc = "insert_holding"
    /\ LET me == req[r]
           h  == StoredHolding(me.user_id, me.holdings_df[me.row])
       IN  IF ~HoldingIsUnique(tbl_holdings, h)
           THEN /\ req' = [req EXCEPT ![r].pc = "raised",
                                      ![r].raised_in = "store_holdings"]
                /\ UNCHANGED <<tbl_holdings, latest>>
           ELSE /\ tbl_holdings' = Append(tbl_holdings, h)
                /\ LET last == me.row = Len(me.holdings_df)
                       now  == [transactions |->
                                   UserTransactions(tbl_transactions, me.user_id),
                                holdings |-> UserHoldings(tbl_holdings', me.user_id)]
                   IN  /\ req' = [req EXCEPT ![r] =
                                 IF last
                                 THEN [me EXCEPT !.pc = "done", !.row = 0,
                                                 !.after = now]
                                 ELSE [me EXCEPT !.row = me.row + 1]]
                       /\ latest' = IF last
                                    THEN [latest EXCEPT ![me.user_id] =
                                            [ran |-> TRUE,
                                             transactions |-> me.transactions,
                                             holdings_df |-> me.holdings_df]]
                                    ELSE latest
    /\ UNCHANGED <<reconVars, http, tbl_users, tbl_raw, tbl_transactions, fix>>

\* the statement a coroutine awaits raises (connection lost, command
\* timeout): process_and_store logs and re-raises
StatementRaises(r) ==
    /\ req[r].pc \in StatementPcs
    /\ req' = [req EXCEPT ![r].pc = "raised",
                          ![r].raised_in = "database"]
    /\ UNCHANGED <<reconVars, http, tables, fix, latest>>

\* fix_holdings_for_all_users: users = await db_manager.get_all_users()
FixStart ==
    /\ fix.pc = "idle"
    /\ fix' = [IdleFix EXCEPT !.pc = IF Len(tbl_users) = 0 THEN "done"
                                     ELSE "get_user_raw_data",
                              !.users = tbl_users]
    /\ UNCHANGED <<reconVars, http, tables, req, latest>>

\* where the loop of fix_holdings_for_all_users goes on after a user
FixNextUser(f) ==
    IF Len(f.users) = 1
    THEN [f EXCEPT !.pc = "done", !.users = <<>>, !.holdings_df = <<>>, !.row = 0]
    ELSE [f EXCEPT !.pc = "get_user_raw_data", !.users = Tail(f.users),
                   !.holdings_df = <<>>, !.row = 0]

\* one turn of the loop up to its next await: the latest raw CSV of the
\* user is loaded, categorized and reconciled
FixGetRawData ==
    /\ fix.pc = "get_user_raw_data"
    /\ LET user_id  == Head(fix.users)
           raw_data == UserRawData(tbl_raw, user_id)
       IN  IF Len(raw_data) = 0
           THEN /\ fix' = FixNextUser(fix)
                /\ UNCHANGED latest
           ELSE LET ld == LoadDegiroDataPG(raw_data[Len(raw_data)].file_data)
                    tr == CategorizeTransactions(ld.df)
                IN  IF ~ld.ok
                    THEN /\ fix' = [fix EXCEPT !.pc = "raised"]
                         /\ UNCHANGED latest
                    ELSE \E q \in StoreQuoteChoices(tr) :
                           LET h == CalculateHoldings(tr, q)
                           IN  IF Len(h) > 0      \* if not holdings_df.empty
                               THEN /\ fix' = [fix EXCEPT !.pc = "delete_holdings",
                                                          !.holdings_df = h]
                                    /\ UNCHANGED latest
                               ELSE /\ fix' = FixNextUser(fix)
                                    /\ latest' = [latest EXCEPT
                                                    ![user_id].ran = TRUE,
                                                    ![user_id].holdings_df = h]
    /\ UNCHANGED <<reconVars, http, tables, req>>

\* store_holdings called by the fix: DELETE FROM holdings WHERE user_id
FixDeleteHoldings ==
    /\ fix.pc = "delete_holdings"
    /\ tbl_holdings' = DeleteUserHoldings(tbl_holdings, Head(fix.users))
    /\ fix' = [fix EXCEPT !.pc = "insert_holding", !.row = 1]
    /\ UNCHANGED <<reconVars, http, tbl_users, tbl_raw, tbl_transactions, req, latest>>

\* store_holdings called by the fix: one INSERT INTO holdings
FixInsertHolding ==
    /\ fix.pc = "insert_holding"
    /\ LET user_id == Head(fix.users)
           h == StoredHolding(user_id, fix.holdings_df[fix.row])
       IN  IF ~HoldingIsUnique(tbl_holdings, h)
           THEN /\ fix' = [fix EXCEPT !.pc = "raised"]
                /\ UNCHANGED <<tbl_holdings, latest>>
           ELSE /\ tbl_holdings' = Append(tbl_holdings, h)
                /\ IF fix.row = Len(fix.holdings_df)
                   THEN /\ fix' = FixNextUser(fix)
                        /\ latest' = [latest EXCEPT
                                        ![user_id].ran = TRUE,
                                        ![user_id].holdings_df = fix.holdings_df]
                   ELSE /\ fix' = [fix EXCEPT !.row = fix.row + 1]
                        /\ UNCHANGED latest
    /\ UNCHANGED <<reconVars, http, tbl_users, tbl_raw, tbl_transactions, req>>

\* a step of a call that is under way
StepUpload(r) ==
    \/ SelectUser(r)
    \/ InsertUser(r)
    \/ StoreRawData(r)
    \/ DeleteTransactions(r)
    \/ InsertTransaction(r)
    \/ DeleteHoldings(r)
    \/ InsertHolding(r)

\* uploads one after the other, none starting while another is under way;
\* any statement may raise
Next ==
    \/ \E r \in Range(Requests), u \in UserIds, c \in StoreCsvs :
          Quiet /\ StartUpload(r, u, c)
    \/ \E r \in Range(Requests) : StepUpload(r)
    \/ \E r \in Range(Requests) : StatementRaises(r)

Spec == Init /\ [][Next]_vars

\* uploads and a run of fix_holdings.py, one after the other
NextFix ==
    \/ \E r \in Range(Requests), u \in UserIds, c \in StoreCsvs :
          Quiet /\ StartUpload(r, u, c)
    \/ \E r \in Range(Requests) : StepUpload(r)
    \/ Quiet /\ FixStart
    \/ FixGetRawData
    \/ FixDeleteHoldings
    \/ FixInsertHolding

SpecFix == Init /\ [][NextFix]_vars

\* the exports uploaded concurrently: each one yields one holding
ConcCsvs == { <<1>>, <<6>> }

\* uploads handled concurrently by the event loop: the coroutines
\* interleave at their awaits
NextConc ==
    \/ \E r \in Range(Requests), u \in UserIds, c \in ConcCsvs :
          StartUpload(r, u, c)
    \/ \E r \in Range(Requests) : StepUpload(r)

SpecConc == Init /\ [][NextConc]_vars

(***************************************************************************)
(* app_pg.py : upload_degiro_data, the endpoint around process_and_store   *)
(* (app.py has the same try / except around its two ways of processing).   *)
(***************************************************************************)
\* the names of the uploaded files
Filenames ==
    { <<"d","a","t","a",".","c","s","v">>, <<"D","A","T","A",".","C","S","V">>,
      <<"n","o","t","e","s",".","t","x","t">>, <<"c","s","v">> }

\* file.filename.lower().endswith(".csv")
EndsWithCsv(filename) ==
    LET s == Lower(filename)
    IN  Len(s) >= 4 /\ SubSeq(s, Len(s) - 3, Len(s)) = <<".","c","s","v">>

\* the endpoint up to the first await of process_and_store: the name is
\* validated, and raise HTTPException(status_code=400) happens inside the
\* try block of the handler
UploadDegiroData(r, user_id, filename, csv_content) ==
    /\ NextToArrive(r)
    /\ IF ~EndsWithCsv(filename)
       THEN /\ req' = [req EXCEPT ![r] =
                       [IdleRequest EXCEPT !.pc = "raised", !.user_id = user_id,
                                           !.before = RowsOf(user_id),
                                           !.raised_in = "upload_degiro_data"]]
            /\ http' = [http EXCEPT ![r] = [filename |-> filename, status |-> 0]]
            /\ UNCHANGED <<reconVars, tables, fix, latest>>
       ELSE /\ ProcessToFirstAwait(r, user_id, csv_content)
            /\ http' = [http EXCEPT ![r] = [filename |-> filename, status |-> 0]]
            /\ UNCHANGED <<reconVars, tables, fix, latest>>

\* the end of the handler: return JSONResponse(content=result), or
\* except Exception as e: raise HTTPException(status_code=500, detail=str(e)),
\* which is where every exception raised inside the try block arrives, the
\* HTTPException of the validation included
Respond(r) ==
    /\ req[r].pc \in {"done", "raised"}
    /\ http[r].status = 0
    /\ http' = [http EXCEPT ![r].status = IF req[r].pc = "done" THEN 200 ELSE 500]
    /\ UNCHANGED <<reconVars, tables, req, fix, latest>>

\* the exports uploaded through the endpoint
EndpointCsvs == { <<1>>, <<16>> }

NextEndpoint ==
    \/ \E r \in Range(Requests), u \in UserIds, f \in Filenames, c \in EndpointCsvs :
          Quiet /\ UploadDegiroData(r, u, f, c)
    \/ \E r \in Range(Requests) : StepUpload(r)
    \/ \E r \in Range(Requests) : StatementRaises(r)
    \/ \E r \in Range(Requests) : Respond(r)

SpecEndpoint == Init /\ [][NextEndpoint]_vars

(***************************************************************************)
(* test_postgres.py : the CSV of test_postgresql_integration handed to     *)
(* process_and_store, beside the same three movements as DeGiro exports    *)
(* them                                                                    *)
(***************************************************************************)
TEST_CSV_CONTENT == <<21, 22, 23>>

TestCsvs == { TEST_CSV_CONTENT, <<1, 5, 2>> }

NextTest ==
    \/ \E r \in Range(Requests), u \in UserIds, c \in TestCsvs :
          Quiet /\ StartUpload(r, u, c)
    \/ \E r \in Range(Requests) : StepUpload(r)

SpecTest == Init /\ [][NextTest]_vars

\* uploads handled concurrently, any statement of which may raise
NextIsolation ==
    \/ \E r \in Range(Requests), u \in UserIds, c \in ConcCsvs :
          StartUpload(r, u, c)
    \/ \E r \in Range(Requests) : StepUpload(r)
    \/ \E r \in Range(Requests) : StatementRaises(r)

SpecIsolation == Init /\ [][NextIsolation]_vars

(***************************************************************************)
(* Claims about reconciliation and classification (SpecRecon).             *)
(***************************************************************************)
\* the sum of shares over the rows of a DataFrame that carry the ISIN and
\* satisfy Keep
SharesOver(rows, isin, Keep(_)) ==
    LET at == {i \in 1..Len(rows) : rows[i].ISIN = isin /\ Keep(rows[i])}
        F[S \in SUBSET at] ==
            IF S = {} THEN 0
            ELSE LET i == CHOOSE x \in S : TRUE
                 IN  rows[i].shares + F[S \ {i}]
    IN  F[at]

AnyRow(r)   == TRUE
ValidRow(r) == r.is_valid

\* the set of ISINs of a sequence of holdings
IsinsOf(hs) == {hs[i].isin : i \in 1..Len(hs)}

\* the buy rows as the PG reconciler reads them: with the ISIN column it
\* works on
BuysPG == BuysWithIsin(transactions["buys"])

\* a null shares value counts as 0
NumOr0(x) == IF IsNaN(x) THEN 0 ELSE Val(x)

\* the generator's buy and sell rows with shares as plain numbers
PlainShares(rows) ==
    [i \in 1..Len(rows) |-> [rows[i] EXCEPT !.shares = NumOr0(rows[i].shares)]]

\* C1: for every ISIN for which a Holding is emitted, shares_held is the sum
\* of shares over the valid (is_valid) buy rows of that ISIN minus the sum of
\* shares over all sell rows of that ISIN -- in both reconcilers.
C1_SharesHeldIsValidBuysMinusSells ==
    /\ phase = "pg_reconciled" =>
        \A i \in 1..Len(holdings) :
            holdings[i].shares_held =
                SharesOver(BuysPG, holdings[i].isin, ValidRow)
                - SharesOver(transactions["sells"], holdings[i].isin, AnyRow)
    /\ phase = "gen_reconciled" =>
        \A i \in 1..Len(stock_values) :
            stock_values[i].shares_held =
                SharesOver(PlainShares(df_buys), stock_values[i].isin, ValidRow)
                - SharesOver(PlainShares(df_sells), stock_values[i].isin, AnyRow)

\* net shares as the reconcilers net them: buy shares minus sell shares over
\* the rows that carry the ISIN in their ISIN column
NetSharesPG(isin) ==
    SharesOver(BuysPG, isin, AnyRow) - SharesOver(transactions["sells"], isin, AnyRow)
NetSharesGen(isin) ==
    SharesOver(PlainShares(df_buys), isin, AnyRow)
    - SharesOver(PlainShares(df_sells), isin, AnyRow)

\* the rows with the ISIN each one is about: the ISIN column, or the ISIN
\* its description names when the column is null
NamedIsin(rows) ==
    [i \in 1..Len(rows) |->
        [rows[i] EXCEPT !.ISIN = IF IsNaText(rows[i].ISIN)
                                 THEN ExtractDescIsin(rows[i].original_description)
                                 ELSE rows[i].ISIN]]

\* buy shares minus sell shares of an ISIN over the categorized rows
NetSharesOfRows(isin) ==
    SharesOver(NamedIsin(transactions["buys"]), isin, AnyRow)
    - SharesOver(NamedIsin(transactions["sells"]), isin, AnyRow)

\* C2: every Holding emitted by reconciliation has shares_held > 0, and no
\* Holding is emitted for an ISIN whose net shares (buy shares minus sell
\* shares) are <= 0, also when it was only sold or sold in excess -- in
\* both reconcilers.
C2_NoHoldingWithoutPositiveNetShares ==
    /\ phase = "pg_reconciled" =>
        \A i \in 1..Len(holdings) :
            /\ holdings[i].shares_held > 0
            /\ NetSharesOfRows(holdings[i].isin) > 0
    /\ phase = "gen_reconciled" =>
        \A i \in 1..Len(stock_values) :
            /\ stock_values[i].shares_held > 0
            /\ NetSharesGen(stock_values[i].isin) > 0

\* the lookup of a PG holding's symbol succeeded: the symbol was queried and
\* the service answered 200 with a price
LookupSucceededPG(h) ==
    /\ h.symbol \in DOMAIN quote
    /\ quote[h.symbol].outcome = "status_200"
    /\ ~IsNaN(quote[h.symbol].c)

\* the lookup of a generator holding's ISIN succeeded
LookupSucceededGen(h) ==
    /\ gquote[h.isin].outcome = "found"
    /\ gquote[h.isin].c # 0

\* the ISINs the reconcilers net to more than 0 shares
HeldIsinsPG ==
    {isin \in {BuysPG[i].ISIN : i \in 1..Len(BuysPG)} :
        ~IsNaText(isin) /\ NetSharesPG(isin) > 0}
HeldIsinsGen ==
    With(HeldStocks(df_buys, df_sells), LAMBDA held :
        {held[k].isin : k \in 1..Len(held)})

\* C8: whatever the price lookups answer (an error, a timeout, no result),
\* reconciliation emits exactly one Holding for every ISIN it nets to more
\* than 0 shares, and a Holding whose own lookup succeeded carries the price it was
\* answered and shares times that price, whatever the other lookups did.
C8_LookupFailuresAreIsolated ==
    /\ phase = "pg_reconciled" =>
        /\ IsinsOf(holdings) = HeldIsinsPG
        /\ Len(holdings) = Cardinality(HeldIsinsPG)
        /\ \A i \in 1..Len(holdings) :
              LookupSucceededPG(holdings[i]) =>
                  /\ holdings[i].current_price = quote[holdings[i].symbol].c
                  /\ holdings[i].position_value =
                        holdings[i].shares_held * Val(quote[holdings[i].symbol].c)
    /\ phase = "gen_reconciled" =>
        /\ IsinsOf(stock_values) = HeldIsinsGen
        /\ Len(stock_values) = Cardinality(HeldIsinsGen)
        /\ \A i \in 1..Len(stock_values) :
              LookupSucceededGen(stock_values[i]) =>
                  /\ stock_values[i].current_price = Num(gquote[stock_values[i].isin].c)
                  /\ stock_values[i].position_value =
                        Num(stock_values[i].shares_held * gquote[stock_values[i].isin].c)

\* C8 witness: two ISINs are held, the lookup of one raised and the lookup
\* of the other succeeded, and both have their Holding, the second one
\* with its price.
C8_Witness ==
    /\ phase = "pg_reconciled"
    /\ Len(holdings) = 2
    /\ \E i, j \in 1..2 :
        /\ quote[holdings[i].symbol].outcome = "exception"
        /\ LookupSucceededPG(holdings[j])
        /\ holdings[j].position_value > 0

\* C9: a Holding whose price could not be obtained has current_price null,
\* position_value 0 and source "failed"; a Holding whose lookup succeeded
\* has position_value = shares_held * current_price and a source other
\* than "failed" -- in both reconcilers.
C9_FailedLookupIsMarkedFailed ==
    /\ phase = "pg_reconciled" =>
        \A i \in 1..Len(holdings) :
            IF LookupSucceededPG(holdings[i])
            THEN /\ holdings[i].position_value =
                       holdings[i].shares_held * Val(holdings[i].current_price)
                 /\ holdings[i].source # "failed"
            ELSE /\ IsNaN(holdings[i].current_price)
                 /\ holdings[i].position_value = 0
                 /\ holdings[i].source = "failed"
    /\ phase = "gen_reconciled" =>
        \A i \in 1..Len(stock_values) :
            IF LookupSucceededGen(stock_values[i])
            THEN /\ stock_values[i].position_value =
                       Num(stock_values[i].shares_held * Val(stock_values[i].current_price))
                 /\ stock_values[i].source # "failed"
            ELSE /\ IsNaN(stock_values[i].current_price)
                 /\ stock_values[i].position_value = Num(0)
                 /\ stock_values[i].source = "failed"

\* the number of categories of the PG dict that hold the row read from pool
\* row id
CategoriesHolding(id) ==
    Cardinality({c \in Range(Categories) :
        \E i \in 1..Len(transactions[c]) : transactions[c][i].src = id})

\* C10: classification is a total partition: every row of the loaded
\* DataFrame is in exactly one category; a row matching no rule goes to
\* "other" (which the PG dict does not have) rather than being dropped.
C10_ClassificationIsTotalPartition ==
    phase = "pg_categorized" =>
        \A i \in 1..Len(df) : CategoriesHolding(df[i].src) = 1

\* the symbols of the holdings, the null ones left out
SymbolsHeld == {holdings[i].symbol : i \in 1..Len(holdings)} \ {NaNText}

\* C21: in one reconciliation the price service is asked at most once per
\* symbol, also when the answer was a failure, and the number of lookups is
\* the number of distinct non-null symbols of the holdings.
C21_OneLookupPerSymbol ==
    phase = "pg_reconciled" =>
        /\ \A i, j \in 1..Len(lookups) : lookups[i] = lookups[j] => i = j
        /\ Range(lookups) = SymbolsHeld
        /\ Len(lookups) = Cardinality(SymbolsHeld)

\* C21 witness: three ISINs are held, two of them under one symbol; two
\* lookups were made, and the one that raised was not made again.
C21_Witness ==
    /\ phase = "pg_reconciled"
    /\ Len(holdings) = 3
    /\ Len(lookups) = 2
    /\ \E i, j \in 1..3 : i # j /\ holdings[i].symbol = holdings[j].symbol
    /\ \E k \in 1..2 : quote[lookups[k]].outcome = "exception"

(***************************************************************************)
(* Claims about the store (Spec, SpecFix, SpecConc).                       *)
(***************************************************************************)
\* how often x occurs in a sequence
Occurrences(seq, x) == Cardinality({i \in 1..Len(seq) : seq[i] = x})

\* two sequences of rows hold the same rows, each as often
SameRows(a, b) ==
    /\ Len(a) = Len(b)
    /\ \A i \in 1..Len(a) : Occurrences(a, a[i]) = Occurrences(b, a[i])

\* the rows store_transactions writes for a DataFrame of one category
RowsToStore(user_id, rows, transaction_type) ==
    [i \in 1..Len(rows) |-> StoredTransaction(user_id, rows[i], transaction_type)]

\* the rows store_holdings writes for a holdings DataFrame
HoldingsToStore(user_id, holdings_df) ==
    [i \in 1..Len(holdings_df) |-> StoredHolding(user_id, holdings_df[i])]

\* both calls ran to their end for the same user, the same CSV and the same
\* answers of the quote service
SameUploadTwice ==
    /\ req["r1"].pc = "done"
    /\ req["r2"].pc = "done"
    /\ req["r1"].user_id = req["r2"].user_id
    /\ req["r1"].csv_content = req["r2"].csv_content
    /\ req["r1"].quote = req["r2"].quote

\* C3: ingesting the identical CSV for the same user twice in succession,
\* with the same price-lookup responses, leaves the user's transactions and
\* holdings as they were after the first ingestion: nothing is duplicated
\* and nothing is lost.
C3_ReingestionIsIdempotent ==
    SameUploadTwice =>
        /\ SameRows(req["r2"].after.transactions, req["r1"].after.transactions)
        /\ SameRows(req["r2"].after.holdings, req["r1"].after.holdings)

\* C3 witness: the same export with a buy was ingested twice with the same
\* answers, and the user has transactions and a holding.
C3_Witness ==
    /\ SameUploadTwice
    /\ Len(UserRawData(tbl_raw, req["r2"].user_id)) = 2
    /\ Len(req["r2"].after.transactions) > 0
    /\ Len(req["r2"].after.holdings) > 0

\* every call made for the user so far ran to its end, at least one did, and
\* nothing is under way
OnlySuccessfulIngestions(u) ==
    /\ Quiet
    /\ fix.pc # "raised"
    /\ latest[u].ran
    /\ \A r \in Range(Requests) : req[r].user_id = u => req[r].pc = "done"

\* C4: after any sequence of successful ingestions for a user, the
\* transactions stored for the user in each category are exactly the rows
\* the most recent ingestion classified into that category, also for a
\* category into which it classified no row.
C4_CategoriesAreReplaced ==
    \A u \in UserIds :
        OnlySuccessfulIngestions(u) =>
            \A k \in 1..Len(Categories) :
                SameRows(UserTransactionsOfType(tbl_transactions, u,
                                                RStripS(Categories[k])),
                         RowsToStore(u, latest[u].transactions[Categories[k]],
                                     RStripS(Categories[k])))

\* C5: after any sequence of successful ingestions or holdings repairs for a
\* user, the holdings stored for the user are exactly the holdings computed
\* from the most recently processed CSV, also when there are none.
C5_HoldingsAreReplaced ==
    \A u \in UserIds :
        OnlySuccessfulIngestions(u) =>
            SameRows(UserHoldings(tbl_holdings, u),
                     HoldingsToStore(u, latest[u].holdings_df))

\* the call raised and no later call has arrived
LastCallRaised(k) ==
    /\ req[Requests[k]].pc = "raised"
    /\ \A j \in (k + 1)..Len(Requests) : req[Requests[j]].pc = "idle"

\* C6: if process_and_store fails at any step, no partial write is visible
\* afterwards: the user's stored transactions and holdings are what they
\* were before the call.
C6_FailureLeavesNoPartialWrite ==
    \A k \in 1..Len(Requests) :
        LastCallRaised(k) =>
            /\ SameRows(UserTransactions(tbl_transactions, req[Requests[k]].user_id),
                        req[Requests[k]].before.transactions)
            /\ SameRows(UserHoldings(tbl_holdings, req[Requests[k]].user_id),
                        req[Requests[k]].before.holdings)

\* two uploads of the same user have both ended, and both got past
\* create_or_get_user
BothUploadsEnded(u) ==
    \A r \in Range(Requests) :
        /\ req[r].user_id = u
        /\ req[r].pc \in {"done", "raised"}
        /\ req[r].raised_in # "create_or_get_user"

\* C7: when two uploads of the same user run concurrently, neither fails
\* because of the other's rows and the user's stored holdings end up as the
\* complete holdings of exactly one of the two uploads, never a mixture.
C7_ConcurrentUploadsAreSerialized ==
    \A u \in UserIds :
        BothUploadsEnded(u) =>
            /\ \A r \in Range(Requests) : req[r].pc = "done"
            /\ \E r \in Range(Requests) :
                  SameRows(UserHoldings(tbl_holdings, u),
                           HoldingsToStore(u, req[r].holdings_df))

(***************************************************************************)
(* Claims about the ledger: classification, validity, netting, dividends,  *)
(* loading and conversion (SpecLedger).                                    *)
(***************************************************************************)
\* the description of pool row id contains both "compra" and "stock split"
CompraStockSplit(id) ==
    With(Lower(RowPool[id].Descripcion), LAMBDA x :
        Contains(x, <<"c","o","m","p","r","a">>) /\ Contains(x, <<"s","t","o","c","k"," ","s","p","l","i","t">>))

\* the pool rows that are stock splits booked with "compra"
CompraStockSplitRows == {id \in RowIds : CompraStockSplit(id)}

\* C11: a row whose description contains both "compra" and "stock split" is
\* never classified as a plain buy: after preprocess_data its category is
\* not "compra", it is not in create_df_buys' rows, and it is not in
\* categorize_transactions' "buys".
C11_StockSplitIsNeverPlainBuy ==
    /\ \A i \in 1..Len(gdf) :
          gdf[i].src \in CompraStockSplitRows => gdf[i].category # "compra"
    /\ \A i \in 1..Len(df_buys) : df_buys[i].src \notin CompraStockSplitRows
    /\ \A i \in 1..Len(transactions["buys"]) :
          transactions["buys"][i].src \notin CompraStockSplitRows

\* the denylisted descriptions as preprocess_data leaves a description: in
\* lower case
DenylistedDescriptions == {Lower(d) : d \in Denylist}

\* C12: after preprocess_data and filter_not_needed_rows no remaining row
\* has a denylisted description (connectivity fee, Flatex interest, ADR/GDR
\* fee, capital return, money-market lines, cash-account transfers).
C12_DenylistedRowsAreFilteredOut ==
    \A i \in 1..Len(gdf) : gdf[i].description \notin DenylistedDescriptions

\* the ISIN the PG loader gives pool row id occurs in the row's description
IsinInDescriptionPG(id) ==
    With(LoadedRowsPG[id], LAMBDA r :
        ~IsNaText(r.ISIN) /\ Contains(r.original_description, r.ISIN))
IsinInDescriptionPGTable == PoolTable(IsinInDescriptionPG)

\* an amount is a number below 0
IsNegative(amount) == ~IsNaN(amount) /\ Val(amount) < 0

\* C13: a buy row is valid if and only if its shares are > 0, its ISIN
\* occurs literally in its original description and its EUR amount is
\* negative -- in create_df_buys and in _process_trades; so a buy whose share
\* count cannot be parsed is not valid.
C13_BuyIsValidIffSharesIsinAndNegativeAmount ==
    /\ \A i \in 1..Len(df_buys) :
          df_buys[i].is_valid <=>
              /\ NumOr0(df_buys[i].shares) > 0
              /\ BuyColumnsTable[df_buys[i].src].contains
              /\ IsNegative(df_buys[i].amount_EUR)
    /\ \A i \in 1..Len(transactions["buys"]) :
          transactions["buys"][i].is_valid <=>
              /\ transactions["buys"][i].shares > 0
              /\ IsinInDescriptionPGTable[transactions["buys"][i].src]
              /\ IsNegative(transactions["buys"][i].amount_EUR)

\* the ISINs of a sequence of holdings, each with its shares
HoldingShares(hs) == {<<hs[i].isin, hs[i].shares_held>> : i \in 1..Len(hs)}

\* the ISINs of held_stocks, each with its net shares
HeldShares(held) == {<<held[k].isin, held[k].net_shares>> : k \in 1..Len(held)}

\* the buy rows without the ones that are not valid
OnlyValid(buys) == SelectSeq(buys, LAMBDA r : r.is_valid)

\* C14: buy rows with is_valid = false take no part in holdings math: the
\* ISINs that have a Holding and the shares_held of each are what they are
\* without the invalid buy rows (which stay among the buy transactions) --
\* in both reconcilers.
C14_InvalidBuysAreExcludedFromHoldings ==
    /\ phase = "pg_reconciled" =>
          HoldingShares(holdings) =
              HoldingShares(CalculateHoldings(
                  [transactions EXCEPT !["buys"] = OnlyValid(transactions["buys"])],
                  quote))
    /\ phase = "gen_reconciled" =>
          HoldingShares(stock_values) =
              HeldShares(HeldStocks(OnlyValid(df_buys), df_sells))

\* the generator's rows whose share count was parsed
Parsed(rows) == SelectSeq(rows, LAMBDA r : ~IsNaN(r.shares))

\* the PG rows whose share count was parsed (a count that is not parsed is
\* stored as 0)
ParsedPG(rows) == SelectSeq(rows, LAMBDA r : r.shares # 0)

\* C15: a buy or sell row without a share count counts as 0 shares: the
\* ISINs that have a Holding and the shares_held of each are those that the
\* rows with a share count give alone -- in both reconcilers.
C15_UnparsedSharesCountAsZero ==
    /\ phase = "pg_reconciled" =>
          HoldingShares(holdings) =
              HoldingShares(CalculateHoldings(
                  [transactions EXCEPT !["buys"] = ParsedPG(transactions["buys"]),
                                       !["sells"] = ParsedPG(transactions["sells"])],
                  quote))
    /\ phase = "gen_reconciled" =>
          HoldingShares(stock_values) =
              HeldShares(HeldStocks(Parsed(df_buys), Parsed(df_sells)))

\* no two holdings of a sequence have the same ISIN
OneHoldingPerIsin(hs) ==
    \A i, j \in 1..Len(hs) : hs[i].isin = hs[j].isin => i = j

\* C16: reconciliation groups by ISIN, not by product name: there is at
\* most one Holding per ISIN, and its shares_held sums the shares of all the
\* buy rows of the ISIN that are netted, whatever product name they carry
\* (less the sells) -- in both reconcilers.
C16_HoldingsAreGroupedByIsin ==
    /\ phase = "pg_reconciled" =>
        /\ OneHoldingPerIsin(holdings)
        /\ \A i \in 1..Len(holdings) :
              holdings[i].shares_held = NetSharesPG(holdings[i].isin)
    /\ phase = "gen_reconciled" =>
        /\ OneHoldingPerIsin(stock_values)
        /\ \A i \in 1..Len(stock_values) :
              stock_values[i].shares_held =
                  SharesOver(PlainShares(df_buys), stock_values[i].isin, ValidRow)
                  - SharesOver(PlainShares(df_sells), stock_values[i].isin, AnyRow)

\* C16 witness: two buy rows of one ISIN carry different product names, and
\* the one Holding of the ISIN has the shares of both.
C16_Witness ==
    /\ phase = "pg_reconciled"
    /\ Len(holdings) = 1
    /\ \E i, j \in 1..Len(transactions["buys"]) :
          /\ transactions["buys"][i].ISIN = transactions["buys"][j].ISIN
          /\ transactions["buys"][i].product # transactions["buys"][j].product
          /\ holdings[1].isin = transactions["buys"][i].ISIN
          /\ holdings[1].shares_held =
                transactions["buys"][i].shares + transactions["buys"][j].shares
          /\ transactions["buys"][i].shares > 0
          /\ transactions["buys"][j].shares > 0

\* verify_dividends was called in main()
DividendsRan ==
    phase \in {"gen_dividends", "gen_dividends_raised", "gen_skipped", "gen_reconciled"}

\* the status verify_dividends' result gives the row read from pool row id,
\* "none" when the result does not hold the row
StatusOf(id) ==
    With({i \in 1..Len(df_dividends) : df_dividends[i].src = id}, LAMBDA at :
        IF at = {} THEN "none" ELSE df_dividends[Min(at)].status)

\* the dividend rows of a US ISIN that share date and product with row i of
\* the DataFrame handed to verify_dividends
GroupOfUS(d, i) ==
    IF d[i].country = <<"U","S">> /\ ~IsNaText(d[i].product)
    THEN DividendGroup(d, i) ELSE <<>>

\* C17: in verify_dividends, the two rows "dividendo" and "retencion del
\* dividendo" that make up the (date, product) group of a US ISIN are both
\* marked verified, and a dividend row that is alone in the group of a US
\* ISIN is marked unverified.
C17_DividendPairVerifiedLoneUnverified ==
    DividendsRan =>
        \E d \in {CreateDfDividends(gdf)} :
            \A i \in 1..Len(d) :
                \E g \in {GroupOfUS(d, i)} :
                    /\ ( /\ Len(g) = 2
                         /\ {g[1].description, g[2].description} =
                                {<<"d","i","v","i","d","e","n","d","o">>, <<"r","e","t","e","n","c","i","o'","n"," ","d","e","l"," ","d","i","v","i","d","e","n","d","o">>} )
                       => StatusOf(d[i].src) = "verified"
                    /\ ( /\ Len(g) = 1
                         /\ g[1].description = <<"d","i","v","i","d","e","n","d","o">> )
                       => StatusOf(d[i].src) = "unverified"

\* the pool rows a sequence of rows was read from
SourcesOf(rows) == {rows[i].src : i \in 1..Len(rows)}

\* C18: verify_dividends only labels: it returns exactly the dividend rows
\* it was given, each with status verified or unverified, so that
\* total_dividends is the sum of amount_EUR over all the dividend rows --
\* also when no group is verified and when a row has no product.
C18_VerificationOnlyLabels ==
    DividendsRan =>
        \E d \in {CreateDfDividends(gdf)} :
            /\ phase # "gen_dividends_raised"
            /\ Len(df_dividends) = Len(d)
            /\ SourcesOf(df_dividends) = SourcesOf(d)
            /\ \A i \in 1..Len(df_dividends) :
                  df_dividends[i].status \in {"verified", "unverified"}
            /\ TotalDividends(df_dividends) = TotalDividends(d)

\* the lines of the CSV that have a date
DatedRows(rows) == SelectSeq(rows, LAMBDA id : ~IsNaText(RowPool[id].Fecha))

\* C19: a parse-level failure never aborts loading: load_degiro_data does
\* not raise on a malformed date or a non-numeric amount, and it keeps every
\* row but those whose date is missing.
C19_ParseFailuresNeverAbortLoading ==
    /\ phase \notin {"pg_load_raised", "gen_load_raised"}
    /\ phase = "pg_loaded" =>
          /\ Len(df) = Len(DatedRows(csv))
          /\ \A i \in 1..Len(df) : df[i].src = DatedRows(csv)[i]

\* amount_EUR is the amount divided by the rate and rounded to the cent
IsAmountOverRate(amount_EUR, amount) ==
    /\ ~IsNaN(amount_EUR)
    /\ 2 * Abs(Val(amount_EUR) * EurToUsd - Val(amount) * 100) <= EurToUsd

\* C20: in the DataFrame main() converts, amount_EUR is the amount itself in
\* every row in EUR, the amount divided by the EUR_to_USD rate in every row
\* in USD, and there is no row in another currency.
C20_OnlyUsdIsConverted ==
    \A i \in 1..Len(gdf) :
        /\ gdf[i].amount_currency \in {<<"E","U","R">>, <<"U","S","D">>}
        /\ gdf[i].amount_currency = <<"E","U","R">> => gdf[i].amount_EUR = gdf[i].amount
        /\ (gdf[i].amount_currency = <<"U","S","D">> /\ ~IsNaN(gdf[i].amount)) =>
              IsAmountOverRate(gdf[i].amount_EUR, gdf[i].amount)

\* C20 witness: the CSV has a row in USD, a row in EUR and a row in GBP; the
\* first was divided by the rate, the second kept its amount, the third is
\* not in the DataFrame.
C20_Witness ==
    /\ phase = "gen_loaded"
    /\ \E i, j \in 1..Len(gdf) :
          /\ gdf[i].amount_currency = <<"U","S","D">>
          /\ gdf[i].amount_EUR # gdf[i].amount
          /\ gdf[j].amount_currency = <<"E","U","R">>
          /\ gdf[j].amount_EUR = gdf[j].amount
    /\ \E k \in 1..Len(csv) :
          /\ LoadedRowsGen[csv[k]].amount_currency = <<"G","B","P">>
          /\ csv[k] \notin SourcesOf(gdf)

(***************************************************************************)
(* Properties of the price extractors                                      *)
(***************************************************************************)
\* the token read the European way, worked out from its characters alone:
\* every digit counts, and the digits after the comma are the decimals
EuropeanValue(token) ==
    LET comma == CHOOSE i \in 1..Len(token) : token[i] = ","
    IN  [num |-> ParseNat(SelectSeq(token, IsDigit)),
         den |-> Pow10(Len(SelectSeq(SubSeq(token, comma + 1, Len(token)), IsDigit)))]

\* tokens with one decimal comma and a digit, with or without points
CommaTokens ==
    {t \in PriceTokens : /\ Cardinality({i \in 1..Len(t) : t[i] = ","}) = 1
                         /\ \E i \in 1..Len(t) : IsDigit(t[i])}

UsdDescription(token) == PriceDescription(token, <<"U","S","D">>)

\* C22: the price token after "@" is read with "." as thousands separator
\* (removed) and "," as decimal point when it has both, and with "," as decimal
\* point when it has only ","; "1.208,88" gives 1208.88 and "61,82" gives
\* 61.82; the buy extractor and the sell extractor return the same.
C22_PriceTokenIsReadTheEuropeanWay ==
    /\ \A t \in CommaTokens :
           price.description = UsdDescription(t) =>
               /\ price.buys # <<>> => price.buys[1] = Num(EuropeanValue(t))
               /\ price.sells # <<>> => price.sells[1] = Num(EuropeanValue(t))
    /\ price.description = UsdDescription(<<"6","1",",","8","2">>) /\ price.buys # <<>>
           => price.buys[1] = Num([num |-> 6182, den |-> 100])
    /\ price.description = UsdDescription(<<"1",".","2","0","8",",","8","8">>) /\ price.sells # <<>>
           => price.sells[1] = Num([num |-> 120888, den |-> 100])
    /\ price.buys # <<>> /\ price.sells # <<>> => price.buys = price.sells

C22_Witness ==
    /\ price.description = UsdDescription(<<"1",".","2","0","8",",","8","8">>)
    /\ price.buys = << Num([num |-> 120888, den |-> 100]) >>
    /\ price.sells = price.buys

(***************************************************************************)
(* Properties of calculate_holdings when the ISINs come from the           *)
(* descriptions                                                            *)
(***************************************************************************)
\* no buy row carries an ISIN from the product field
NoBuyCarriesIsin ==
    /\ Len(transactions["buys"]) > 0
    /\ \A i \in 1..Len(transactions["buys"]) : IsNaText(transactions["buys"][i].ISIN)

\* the shares of the rows whose description names the ISIN
SharesNaming(rows, isin) ==
    SumSeq([i \in 1..Len(rows) |->
              IF ExtractDescIsin(rows[i].original_description) = isin
              THEN rows[i].shares ELSE 0])

ReextractedIsins ==
    {ExtractDescIsin(transactions["buys"][i].original_description) :
        i \in 1..Len(transactions["buys"])} \ {NaNText}

\* C23: when no buy row carries an ISIN from the product field, the sells
\* are still netted: for every ISIN re-extracted from the buy descriptions,
\* shares_held is the buy shares minus the shares of the sells whose
\* description names the ISIN, and a position sold in full has no Holding.
C23_ReextractedIsinsNetTheirSells ==
    phase = "pg_reconciled" /\ NoBuyCarriesIsin =>
        \A isin \in ReextractedIsins :
            \E net \in {SharesNaming(transactions["buys"], isin)
                        - SharesNaming(transactions["sells"], isin)} :
                IF net > 0
                THEN \E k \in 1..Len(holdings) :
                        holdings[k].isin = isin /\ holdings[k].shares_held = net
                ELSE \A k \in 1..Len(holdings) : holdings[k].isin # isin

(***************************************************************************)
(* Properties of the upload endpoint                                       *)
(***************************************************************************)
\* the calls the endpoint has answered
Answered == {r \in Range(Requests) : http[r].status # 0}

\* C24: a file whose name does not end in ".csv" is answered with HTTP 400,
\* with no processing invoked and nothing written; HTTP 500 is the answer
\* only when processing itself failed.
C24_NonCsvNameIsAnswered400 ==
    \A r \in Answered :
        /\ ~EndsWithCsv(http[r].filename) =>
               /\ http[r].status = 400
               /\ req[r].transactions = NoTransactions
               /\ req[r].csv_content = <<>>
        /\ http[r].status = 500 =>
               req[r].raised_in \in {"load_degiro_data", "create_or_get_user", "database"}

(***************************************************************************)
(* Properties of process_and_store on the integration test's CSV           *)
(***************************************************************************)
\* the calls that were handed the test's CSV and are not under way
TestCalls ==
    {r \in Range(Requests) : req[r].csv_content = TEST_CSV_CONTENT
                             /\ req[r].pc \notin StatementPcs}

\* C25: for the CSV of the integration test (columns Fecha, Producto,
\* Descripcion, an amount column and a balance column; a buy, a dividend and
\* a sell) process_and_store does not raise and returns success, and the
\* user's transactions and holdings read afterwards are those the run stored.
C25_TestCsvIsProcessedAndStored ==
    \A r \in TestCalls :
        /\ req[r].pc = "done"
        /\ Len(req[r].after.transactions) = 3
        /\ \A k \in 1..Len(Categories) :
               SameRows(SelectSeq(req[r].after.transactions,
                                  LAMBDA t : t.transaction_type = RStripS(Categories[k])),
                        RowsToStore(req[r].user_id, req[r].transactions[Categories[k]],
                                    RStripS(Categories[k])))
        /\ SameRows(req[r].after.holdings,
                    HoldingsToStore(req[r].user_id, req[r].holdings_df))

(***************************************************************************)
(* Properties of what a reader of the store finds                          *)
(***************************************************************************)
\* the rows of one type among rows read with get_user_transactions
OfType(rows, transaction_type) ==
    SelectSeq(rows, LAMBDA t : t.transaction_type = transaction_type)

\* C26: a reader that calls get_user_transactions or get_user_holdings for a
\* user while an ingestion for the user is under way finds, for each
\* category, either all the rows from before the ingestion or all the rows of
\* the new ingestion, never an emptied or partly inserted category.
C26_ReaderSeesNoIntermediateState ==
    \A r \in Range(Requests) :
        req[r].pc \in StatementPcs =>
            \E now \in {RowsOf(req[r].user_id)} :
                /\ \A k \in 1..Len(Categories) :
                      \E type \in {RStripS(Categories[k])} :
                          \/ SameRows(OfType(now.transactions, type),
                                      OfType(req[r].before.transactions, type))
                          \/ SameRows(OfType(now.transactions, type),
                                      RowsToStore(req[r].user_id,
                                                  req[r].transactions[Categories[k]], type))
                /\ \/ SameRows(now.holdings, req[r].before.holdings)
                   \/ SameRows(now.holdings,
                               HoldingsToStore(req[r].user_id, req[r].holdings_df))

(***************************************************************************)
(* Properties of the store across users                                    *)
(***************************************************************************)
\* C27: a step of an ingestion for one user, whether the ingestion ends well
\* or raises and however it interleaves with other calls, leaves the
\* transactions and holdings stored for every other user as they are.
C27_IngestionLeavesOtherUsersRows ==
    [][\A r \in Range(Requests) :
          req'[r] # req[r] =>
              \A b \in UserIds \ {req'[r].user_id} :
                  /\ UserTransactions(tbl_transactions', b)
                        = UserTransactions(tbl_transactions, b)
                  /\ UserHoldings(tbl_holdings', b) = UserHoldings(tbl_holdings, b)]_vars

\* C27 witness: u2's upload ran to its end and u1's upload stored rows and
\* then raised; u2 has what its upload stored.
C27_Witness ==
    /\ req["r1"].user_id = "u2" /\ req["r1"].pc = "done"
    /\ req["r2"].user_id = "u1" /\ req["r2"].pc = "raised"
    /\ req["r2"].raised_in = "database"
    /\ Len(UserTransactions(tbl_transactions, "u1")) > 0
    /\ Len(req["r2"].before.transactions) = 0
    /\ Len(req["r1"].after.holdings) > 0
    /\ Len(UserTransactions(tbl_transactions, "u2")) > 0
    /\ UserHoldings(tbl_holdings, "u2") = req["r1"].after.holdings

(***************************************************************************)
(* Properties of create_or_get_user                                        *)
(***************************************************************************)
\* the calls whose create_or_get_user has come to its end, one way or the other
PastCreateOrGetUser ==
    {r \in Range(Requests) :
        req[r].pc \notin {"idle", "create_or_get_user", "insert_user"}
        /\ req[r].raised_in # "load_degiro_data"}

\* C28: after any sequence or interleaving of create_or_get_user calls for
\* the same user_id, the users table holds exactly one row for the user_id
\* and no call raised.
C28_CreateOrGetUserIsSafe ==
    \A r \in PastCreateOrGetUser :
        /\ Occurrences(tbl_users, req[r].user_id) = 1
        /\ req[r].raised_in # "create_or_get_user"

(***************************************************************************)
(* Properties of the portfolio summary                                     *)
(***************************************************************************)
\* C29: in one run of main the current_portfolio_value_eur written into
\* portfolio_summary.json is the value of the stock values that the same run
\* produced, never that of an earlier price file and never 0 because the
\* file does not exist yet.
C29_SummaryValuesThisRunsStocks ==
    phase = "gen_reconciled" =>
        output.portfolio_summary[1].current_portfolio_value_eur
            = RoundDiv(TotalValueUsd(stock_values) * 100, EurToUsd)

(***************************************************************************)
(* Properties of create_df_buys                                            *)
(***************************************************************************)
\* the rows of main's df that create_df_buys selects
CompraRows == SelectSeq(gdf, LAMBDA row : row.category = "compra")

\* C30: create_df_buys does not fail on a buy row whose ISIN is null: the
\* row stays among the buys with is_valid = false, and every other buy row
\* gets the is_valid of the validity rule.
C30_NullIsinBuyIsKeptInvalid ==
    phase \in {"gen_datasets", "gen_buys_raised"} =>
        /\ phase = "gen_datasets"
        /\ Len(df_buys) = Len(CompraRows)
        /\ \A i \in 1..Len(df_buys) :
              /\ df_buys[i].src = CompraRows[i].src
              /\ df_buys[i].is_valid = (IF IsNaText(CompraRows[i].ISIN) THEN FALSE
                                        ELSE BuyIsValidGen(CompraRows[i]))

=============================================================================
